---------------------------- MODULE Spec2Model ----------------------------
(***************************************************************************)
(* Model of the riskops GRC core: the RiskAssessmentEngine of              *)
(* src/src/riskops/grc/assessment.py and the ComplianceMapper of           *)
(* src/src/riskops/grc/compliance.py.                                      *)
(*                                                                         *)
(* Text is a sequence of one-character strings, so that prefixes,          *)
(* substrings, case folding and splitting are computed character by        *)
(* character as Python does.  A DataFrame is a record                      *)
(*   [columns |-> sequence of column names, rows |-> sequence of rows]     *)
(* where a row maps each column name to a cell.  A cell is a number        *)
(* (held in halves, so that 2.5 is h = 5), a string or NaN.                *)
(***************************************************************************)
EXTENDS Integers, Sequences, FiniteSets, TLC

VARIABLES eng, mapper, fs, exports

vars == <<eng, mapper, fs, exports>>

-----------------------------------------------------------------------------
(* Cells of a DataFrame *)

NumCell(h) == [t |-> "num", h |-> h, s |-> <<>>]

StrCell(s) == [t |-> "str", h |-> 0, s |-> s]

NaN == [t |-> "nan", h |-> 0, s |-> <<>>]

NoneCell == [t |-> "none", h |-> 0, s |-> <<>>]

\* A string held in a column of an extension dtype (pandas' "string" or
\* "category"), which is not the object dtype.
ExtStrCell(s) == [t |-> "string", h |-> 0, s |-> s]

IntCell(n) == NumCell(2 * n)

Range(seq) == {seq[i] : i \in DOMAIN seq}

-----------------------------------------------------------------------------
(* RiskThresholds *)

low_max == 4

medium_max == 9

high_max == 16

DefaultThresholds == [low_max |-> low_max, medium_max |-> medium_max, high_max |-> high_max]

level_for_score_lax(thr, score) ==
    IF score < 0 THEN "ValueError"
    ELSE IF score < thr.low_max THEN "low"
    ELSE IF score <= thr.medium_max THEN "medium"
    ELSE IF score <= thr.high_max THEN "high"
    ELSE "critical"

\* RiskThresholds.level_for_score: the level, or "ValueError" when it raises.
level_for_score(thr, score) ==
    IF score < 0 THEN "ValueError"
    ELSE IF score <= thr.low_max THEN "low"
    ELSE IF score <= thr.medium_max THEN "medium"
    ELSE IF score <= thr.high_max THEN "high"
    ELSE "critical"


-----------------------------------------------------------------------------
(* Text: characters, digits, numeric parsing *)

Digits == <<"0", "1", "2", "3", "4", "5", "6", "7", "8", "9">>

IsDigit(c) == \E d \in DOMAIN Digits : Digits[d] = c

DigitVal(c) == (CHOOSE d \in DOMAIN Digits : Digits[d] = c) - 1

AllDigits(s) == Len(s) > 0 /\ \A i \in DOMAIN s : IsDigit(s[i])

RECURSIVE DecVal(_)
DecVal(s) ==
    IF Len(s) = 0 THEN 0
    ELSE 10 * DecVal(SubSeq(s, 1, Len(s) - 1)) + DigitVal(s[Len(s)])

\* The float parser behind pd.to_numeric(..., errors="coerce") and behind the
\* type inference of pd.read_csv, on one string, for the forms the model's
\* inputs use: an optional sign, then a run of digits, or digits followed by
\* ".5"; everything else (the empty string included) is not a number (NaN).
ParseUnsigned(s) ==
    IF AllDigits(s) THEN IntCell(DecVal(s))
    ELSE IF /\ Len(s) >= 3
            /\ s[Len(s)] = "5"
            /\ s[Len(s) - 1] = "."
            /\ AllDigits(SubSeq(s, 1, Len(s) - 2))
         THEN NumCell(2 * DecVal(SubSeq(s, 1, Len(s) - 2)) + 1)
    ELSE NaN

ParseNum(s) ==
    IF Len(s) > 1 /\ s[1] \in {"-", "+"}
    THEN LET u == ParseUnsigned(SubSeq(s, 2, Len(s)))
         IN  IF u.t = "nan" THEN NaN
             ELSE IF s[1] = "-" THEN NumCell(-u.h) ELSE u
    ELSE ParseUnsigned(s)

\* pd.to_numeric(series, errors="coerce"), cell by cell.
to_numeric(c) == IF c.t = "str" THEN ParseNum(c.s) ELSE c

\* Series.astype(int) on a non-null number: truncation toward zero.
astype_int(c) == IF c.h >= 0 THEN c.h \div 2 ELSE -((-c.h) \div 2)

-----------------------------------------------------------------------------
(* DataFrame helpers *)

HasColumn(df, name) == name \in Range(df.columns)

\* df[name] = values: an existing column keeps its place, a new one is appended.
SetColumn(df, name, values) ==
    [columns |-> IF HasColumn(df, name) THEN df.columns ELSE Append(df.columns, name),
     rows |-> [i \in DOMAIN df.rows |->
                 [c \in Range(df.columns) \cup {name} |->
                     IF c = name THEN values[i] ELSE df.rows[i][c]]]]

\* pd.api.types.is_object_dtype(df[name]): the column holds Python objects
\* (strings, None); a column of numbers and NaN alone is int64 or float64.
is_object_dtype(df, name) ==
    \E i \in DOMAIN df.rows : df.rows[i][name].t \in {"str", "none"}

\* pd.api.types.is_numeric_dtype(df[name])
is_numeric_dtype(df, name) ==
    \A i \in DOMAIN df.rows : df.rows[i][name].t \notin {"str", "none", "string"}

-----------------------------------------------------------------------------
(* RiskAssessmentEngine *)

ASSET_COLUMN == "Asset"

THREAT_COLUMN == "Threat"

PROBABILITY_COLUMN == "Probability"

IMPACT_COLUMN == "Impact"

SCORE_COLUMN == "Risk"

LEVEL_COLUMN == "RiskLevel"

\* The Python strings that level_for_score returns, as text.
LevelText ==
    [low |-> <<"l", "o", "w">>,
     medium |-> <<"m", "e", "d", "i", "u", "m">>,
     high |-> <<"h", "i", "g", "h">>,
     critical |-> <<"c", "r", "i", "t", "i", "c", "a", "l">>]

\* _validate_structure: "ok", or the error it raises.
validate_structure(df) ==
    LET required == {ASSET_COLUMN, THREAT_COLUMN, PROBABILITY_COLUMN, IMPACT_COLUMN}
        missing == {c \in required : ~HasColumn(df, c)}
    IN  IF missing # {} THEN "RiskMatrixValidationError"
        ELSE IF \E col \in {PROBABILITY_COLUMN, IMPACT_COLUMN} :
                    /\ ~is_numeric_dtype(df, col)
                    /\ \E i \in DOMAIN df.rows : to_numeric(df.rows[i][col]).t = "nan"
             THEN "RiskMatrixValidationError"
        ELSE "ok"

in_range_no_upper(c) == c.h >= 2 * 1

\* (scored[col] >= 1) & (scored[col] <= 5)
in_range(c) == c.h >= 2 * 1 /\ c.h <= 2 * 5

\* scored[Risk] = scored[Probability].astype(int) * scored[Impact].astype(int)
risk_product(p, i) == IntCell(astype_int(p) * astype_int(i))

score_columns_keep(self, scored) ==
    LET risk == [i \in DOMAIN scored.rows |->
                    IF HasColumn(scored, SCORE_COLUMN)
                    THEN scored.rows[i][SCORE_COLUMN]
                    ELSE risk_product(scored.rows[i][PROBABILITY_COLUMN],
                                      scored.rows[i][IMPACT_COLUMN])]
        withRisk == SetColumn(scored, SCORE_COLUMN, risk)
        level == [i \in DOMAIN scored.rows |->
                    StrCell(LevelText[level_for_score(self, astype_int(risk[i]))])]
    IN  SetColumn(withRisk, LEVEL_COLUMN, level)

\* The two assignments that end calculate_scores: Risk, then RiskLevel.
score_columns(self, scored) ==
    LET risk == [i \in DOMAIN scored.rows |->
                    risk_product(scored.rows[i][PROBABILITY_COLUMN],
                                 scored.rows[i][IMPACT_COLUMN])]
        withRisk == SetColumn(scored, SCORE_COLUMN, risk)
        level == [i \in DOMAIN scored.rows |->
                    StrCell(LevelText[level_for_score(self, astype_int(risk[i]))])]
    IN  SetColumn(withRisk, LEVEL_COLUMN, level)

\* calculate_scores: [status, df]; df is the returned table when status = "ok".
calculate_scores(self, df) ==
    IF validate_structure(df) # "ok"
    THEN [status |-> "RiskMatrixValidationError", df |-> <<>>]
    ELSE
      LET p == [i \in DOMAIN df.rows |-> to_numeric(df.rows[i][PROBABILITY_COLUMN])]
          q == [i \in DOMAIN df.rows |-> to_numeric(df.rows[i][IMPACT_COLUMN])]
          scored == SetColumn(SetColumn(df, PROBABILITY_COLUMN, p), IMPACT_COLUMN, q)
      IN  IF \E i \in DOMAIN df.rows : p[i].t = "nan" \/ q[i].t = "nan"
          THEN [status |-> "RiskMatrixValidationError", df |-> <<>>]
          ELSE IF \E i \in DOMAIN df.rows : ~in_range(p[i]) \/ ~in_range(q[i])
          THEN [status |-> "RiskMatrixValidationError", df |-> <<>>]
          ELSE [status |-> "ok", df |-> score_columns(self, scored)]

-----------------------------------------------------------------------------
(* Python str operations on text *)

UpperLetters ==
    <<"A", "B", "C", "D", "E", "F", "G", "H", "I", "J", "K", "L", "M",
      "N", "O", "P", "Q", "R", "S", "T", "U", "V", "W", "X", "Y", "Z">>

LowerLetters ==
    <<"a", "b", "c", "d", "e", "f", "g", "h", "i", "j", "k", "l", "m",
      "n", "o", "p", "q", "r", "s", "t", "u", "v", "w", "x", "y", "z">>

LowerOf ==
    [c \in Range(UpperLetters) |->
        LowerLetters[CHOOSE i \in DOMAIN UpperLetters : UpperLetters[i] = c]]

UpperOf ==
    [c \in Range(LowerLetters) |->
        UpperLetters[CHOOSE i \in DOMAIN LowerLetters : LowerLetters[i] = c]]

LowerChar(c) == IF c \in DOMAIN LowerOf THEN LowerOf[c] ELSE c

UpperChar(c) == IF c \in DOMAIN UpperOf THEN UpperOf[c] ELSE c

\* str.lower() and str.upper()
lower(s) == [i \in DOMAIN s |-> LowerChar(s[i])]

upper(s) == [i \in DOMAIN s |-> UpperChar(s[i])]

\* keyword in text
Contains(text, keyword) ==
    \E i \in 1..(Len(text) - Len(keyword) + 1) :
        \A j \in DOMAIN keyword : text[i + j - 1] = keyword[j]

\* The characters str.strip() and str.split() treat as separators.
IsSpace(c) == c \in {" ", "\t", "\n", "\r"}

IsBlank(s) == \A i \in DOMAIN s : IsSpace(s[i])

\* The first index from i on that holds no separator (Len(s) + 1 if none).
RECURSIVE FirstSolid(_, _)
FirstSolid(s, i) ==
    IF i > Len(s) \/ ~IsSpace(s[i]) THEN i ELSE FirstSolid(s, i + 1)

\* The last index up to i that holds no separator (0 if none).
RECURSIVE LastSolid(_, _)
LastSolid(s, i) ==
    IF i < 1 \/ ~IsSpace(s[i]) THEN i ELSE LastSolid(s, i - 1)

\* The first index from i on that holds a separator (Len(s) + 1 if none).
RECURSIVE FirstSpace(_, _)
FirstSpace(s, i) ==
    IF i > Len(s) \/ IsSpace(s[i]) THEN i ELSE FirstSpace(s, i + 1)

\* str.strip()
strip(s) == SubSeq(s, FirstSolid(s, 1), LastSolid(s, Len(s)))

\* str.split()[0] of a text that is not blank (a blank one raises IndexError).
split_first(s) ==
    LET first == FirstSolid(s, 1)
    IN  SubSeq(s, first, FirstSpace(s, first) - 1)

RECURSIVE DecText(_)
DecText(n) ==
    IF n < 10 THEN <<Digits[n + 1]>>
    ELSE DecText(n \div 10) \o <<Digits[(n % 10) + 1]>>

\* str(value) of a cell
PyStr(c) ==
    CASE c.t = "str" -> c.s
      [] c.t = "string" -> c.s
      [] c.t = "nan" -> <<"n", "a", "n">>
      [] c.t = "none" -> <<"N", "o", "n", "e">>
      [] c.t = "num" ->
            LET a == IF c.h < 0 THEN -c.h ELSE c.h
                sign == IF c.h < 0 THEN <<"-">> ELSE <<>>
            IN  IF a % 2 = 0 THEN sign \o DecText(a \div 2)
                ELSE sign \o DecText(a \div 2) \o <<".", "5">>

-----------------------------------------------------------------------------
(* ComplianceMapper: sanitisation, input conversion, classification *)

DangerousPrefixes == {"=", "+", "-", "@"}

\* _sanitize_text
sanitize_text(value) ==
    IF Len(value) > 0 /\ value[1] \in DangerousPrefixes /\ ~(value[1] = "'")
    THEN <<"'">> \o value
    ELSE value

normalize_risk_level_as_given(value) ==
    IF value.t = "none" THEN NoneCell
    ELSE IF value.s = <<>> THEN NoneCell ELSE StrCell(value.s)

\* _normalize_risk_level: Optional[str] -> Optional[str]
normalize_risk_level(value) ==
    IF value.t = "none" THEN NoneCell
    ELSE LET stripped == lower(strip(value.s))
         IN  IF stripped = <<>> THEN NoneCell ELSE StrCell(stripped)

ScenarioFields == <<"asset", "threat", "probability", "impact", "risk_score", "risk_level">>

\* dataclasses.asdict(item): one row keyed by the field names of RiskScenario.
asdict(item) == [f \in Range(ScenarioFields) |-> item[f]]

\* pd.DataFrame([asdict(item) for item in risks])
dataframe_of_scenarios(items) ==
    [columns |-> ScenarioFields,
     rows |-> [i \in DOMAIN items |-> asdict(items[i])]]

\* DataFrame.empty: no rows or no columns.
IsEmptyFrame_no_columns(df) == Len(df.columns) = 0

IsEmptyFrame(df) == Len(df.rows) = 0 \/ Len(df.columns) = 0

\* _dataframe_from_input: [status, df]; status is "ok" or the error raised.
dataframe_from_input(risks) ==
    LET fail == [status |-> "RiskInputValidationError", df |-> <<>>]
        base ==
            IF risks.kind = "DataFrame"
            THEN IF IsEmptyFrame(risks.df) THEN fail
                 ELSE [status |-> "ok", df |-> risks.df]
            ELSE IF risks.kind = "Sequence"
            THEN IF Len(risks.items) = 0 THEN fail
                 ELSE IF \E i \in DOMAIN risks.items : risks.items[i].cls # "RiskScenario"
                 THEN fail
                 ELSE [status |-> "ok", df |-> dataframe_of_scenarios(risks.items)]
            ELSE fail
    IN  IF base.status # "ok" THEN fail
        ELSE IF ~HasColumn(base.df, "Asset") \/ ~HasColumn(base.df, "Threat") THEN fail
        ELSE IF HasColumn(base.df, "RiskLevel")
        THEN [status |-> "ok",
              df |-> SetColumn(base.df, "RiskLevel",
                        [i \in DOMAIN base.df.rows |->
                            normalize_risk_level(
                                StrCell(PyStr(base.df.rows[i]["RiskLevel"])))])]
        ELSE base

\* _classify_domain: the keywords tested at lines 328-336.
ACCESS_CONTROL_KEYWORDS ==
    {
      \* "unauthorized access"
      <<"u", "n", "a", "u", "t", "h", "o", "r", "i", "z", "e", "d", " ", "a",
        "c", "c", "e", "s", "s">>,
      \* "unauthorised access"
      <<"u", "n", "a", "u", "t", "h", "o", "r", "i", "s", "e", "d", " ", "a",
        "c", "c", "e", "s", "s">>,
      \* "access control"
      <<"a", "c", "c", "e", "s", "s", " ", "c", "o", "n", "t", "r", "o",
        "l">>,
      \* "password"
      <<"p", "a", "s", "s", "w", "o", "r", "d">>,
      \* "credential"
      <<"c", "r", "e", "d", "e", "n", "t", "i", "a", "l">>,
      \* "login"
      <<"l", "o", "g", "i", "n">>,
      \* "authentication"
      <<"a", "u", "t", "h", "e", "n", "t", "i", "c", "a", "t", "i", "o",
        "n">>,
      \* "mfa"
      <<"m", "f", "a">>,
      \* "multi-factor"
      <<"m", "u", "l", "t", "i", "-", "f", "a", "c", "t", "o", "r">>
    }

\* _classify_domain: the keywords tested at lines 345-355.
NETWORK_SECURITY_KEYWORDS ==
    {
      \* "network"
      <<"n", "e", "t", "w", "o", "r", "k">>,
      \* "wifi"
      <<"w", "i", "f", "i">>,
      \* "wi-fi"
      <<"w", "i", "-", "f", "i">>,
      \* "lan"
      <<"l", "a", "n">>,
      \* "wan"
      <<"w", "a", "n">>,
      \* "vpn"
      <<"v", "p", "n">>,
      \* "switch"
      <<"s", "w", "i", "t", "c", "h">>,
      \* "router"
      <<"r", "o", "u", "t", "e", "r">>,
      \* "firewall"
      <<"f", "i", "r", "e", "w", "a", "l", "l">>,
      \* "segmentation"
      <<"s", "e", "g", "m", "e", "n", "t", "a", "t", "i", "o", "n">>,
      \* "segmented"
      <<"s", "e", "g", "m", "e", "n", "t", "e", "d">>
    }

\* _classify_domain: the keywords tested at lines 364-375.
DEVICE_SECURITY_KEYWORDS ==
    {
      \* "iomt"
      <<"i", "o", "m", "t">>,
      \* "medical device"
      <<"m", "e", "d", "i", "c", "a", "l", " ", "d", "e", "v", "i", "c",
        "e">>,
      \* "infusion pump"
      <<"i", "n", "f", "u", "s", "i", "o", "n", " ", "p", "u", "m", "p">>,
      \* "ventilator"
      <<"v", "e", "n", "t", "i", "l", "a", "t", "o", "r">>,
      \* "endpoint"
      <<"e", "n", "d", "p", "o", "i", "n", "t">>,
      \* "workstation"
      <<"w", "o", "r", "k", "s", "t", "a", "t", "i", "o", "n">>,
      \* "tablet"
      <<"t", "a", "b", "l", "e", "t">>,
      \* "laptop"
      <<"l", "a", "p", "t", "o", "p">>,
      \* "mobile"
      <<"m", "o", "b", "i", "l", "e">>,
      \* "bedside monitor"
      <<"b", "e", "d", "s", "i", "d", "e", " ", "m", "o", "n", "i", "t", "o",
        "r">>,
      \* "pacemaker"
      <<"p", "a", "c", "e", "m", "a", "k", "e", "r">>,
      \* "scanner"
      <<"s", "c", "a", "n", "n", "e", "r">>
    }

\* _classify_domain: the keywords tested at lines 384-396.
DATA_PROTECTION_KEYWORDS ==
    {
      \* "phi"
      <<"p", "h", "i">>,
      \* "patient data"
      <<"p", "a", "t", "i", "e", "n", "t", " ", "d", "a", "t", "a">>,
      \* "health record"
      <<"h", "e", "a", "l", "t", "h", " ", "r", "e", "c", "o", "r", "d">>,
      \* "ehr"
      <<"e", "h", "r">>,
      \* "emr"
      <<"e", "m", "r">>,
      \* "database"
      <<"d", "a", "t", "a", "b", "a", "s", "e">>,
      \* "backup"
      <<"b", "a", "c", "k", "u", "p">>,
      \* "encryption"
      <<"e", "n", "c", "r", "y", "p", "t", "i", "o", "n">>,
      \* "crypt"
      <<"c", "r", "y", "p", "t">>,
      \* "pseudonymisation"
      <<"p", "s", "e", "u", "d", "o", "n", "y", "m", "i", "s", "a", "t", "i",
        "o", "n">>,
      \* "pseudonymization"
      <<"p", "s", "e", "u", "d", "o", "n", "y", "m", "i", "z", "a", "t", "i",
        "o", "n">>,
      \* "leak"
      <<"l", "e", "a", "k">>,
      \* "exfiltration"
      <<"e", "x", "f", "i", "l", "t", "r", "a", "t", "i", "o", "n">>
    }

\* _classify_domain: the keywords tested at lines 405-413.
LOGGING_MONITORING_KEYWORDS ==
    {
      \* "logging"
      <<"l", "o", "g", "g", "i", "n", "g">>,
      \* "log"
      <<"l", "o", "g">>,
      \* "monitoring"
      <<"m", "o", "n", "i", "t", "o", "r", "i", "n", "g">>,
      \* "siem"
      <<"s", "i", "e", "m">>,
      \* "ids"
      <<"i", "d", "s">>,
      \* "suricata"
      <<"s", "u", "r", "i", "c", "a", "t", "a">>,
      \* "alert"
      <<"a", "l", "e", "r", "t">>,
      \* "detection"
      <<"d", "e", "t", "e", "c", "t", "i", "o", "n">>,
      \* "soc"
      <<"s", "o", "c">>
    }

ClassifyText(asset, threat) == lower(asset \o <<" ">> \o threat)

MatchesAny(text, keywords) == \E keyword \in keywords : Contains(text, keyword)

IsHighOrCritical(risk_level) ==
    risk_level.t = "str" /\ risk_level.s \in {LevelText["high"], LevelText["critical"]}

classify_domain_network_first(asset, threat, risk_level) ==
    LET text == ClassifyText(asset, threat)
    IN  IF MatchesAny(text, NETWORK_SECURITY_KEYWORDS) THEN "network_security"
        ELSE IF MatchesAny(text, ACCESS_CONTROL_KEYWORDS) THEN "access_control"
        ELSE IF MatchesAny(text, DEVICE_SECURITY_KEYWORDS) THEN "device_security"
        ELSE IF MatchesAny(text, DATA_PROTECTION_KEYWORDS) THEN "data_protection"
        ELSE IF MatchesAny(text, LOGGING_MONITORING_KEYWORDS) THEN "logging_monitoring"
        ELSE IF IsHighOrCritical(risk_level) THEN "data_protection"
        ELSE "general"

\* _classify_domain
classify_domain(asset, threat, risk_level) ==
    LET text == ClassifyText(asset, threat)
    IN  IF MatchesAny(text, ACCESS_CONTROL_KEYWORDS) THEN "access_control"
        ELSE IF MatchesAny(text, NETWORK_SECURITY_KEYWORDS) THEN "network_security"
        ELSE IF MatchesAny(text, DEVICE_SECURITY_KEYWORDS) THEN "device_security"
        ELSE IF MatchesAny(text, DATA_PROTECTION_KEYWORDS) THEN "data_protection"
        ELSE IF MatchesAny(text, LOGGING_MONITORING_KEYWORDS) THEN "logging_monitoring"
        ELSE IF IsHighOrCritical(risk_level) THEN "data_protection"
        ELSE "general"

-----------------------------------------------------------------------------
(* ComplianceMapper: the domain -> controls table and the two operations *)

\* _default_domain_mappings: domain -> ControlMapping(iso_27001, hipaa, gdpr).
default_domain_mappings ==
    [access_control |->
        [iso_27001 |->
            <<
              \* "A.5.15 - Access control"
              <<"A", ".", "5", ".", "1", "5", " ", "-", " ", "A", "c", "c",
                "e", "s", "s", " ", "c", "o", "n", "t", "r", "o", "l">>,
              \* "A.5.16 - Identity management"
              <<"A", ".", "5", ".", "1", "6", " ", "-", " ", "I", "d", "e",
                "n", "t", "i", "t", "y", " ", "m", "a", "n", "a", "g", "e",
                "m", "e", "n", "t">>,
              \* "A.8.3 - Secure log-on procedures"
              <<"A", ".", "8", ".", "3", " ", "-", " ", "S", "e", "c", "u",
                "r", "e", " ", "l", "o", "g", "-", "o", "n", " ", "p", "r",
                "o", "c", "e", "d", "u", "r", "e", "s">>
            >>,
         hipaa |->
            <<
              \* "ADMIN-RISK-MANAGEMENT - Security management process"
              <<"A", "D", "M", "I", "N", "-", "R", "I", "S", "K", "-", "M",
                "A", "N", "A", "G", "E", "M", "E", "N", "T", " ", "-", " ",
                "S", "e", "c", "u", "r", "i", "t", "y", " ", "m", "a", "n",
                "a", "g", "e", "m", "e", "n", "t", " ", "p", "r", "o", "c",
                "e", "s", "s">>,
              \* "TECH-ACCESS - Access control (unique user ID, emergency access)"
              <<"T", "E", "C", "H", "-", "A", "C", "C", "E", "S", "S", " ",
                "-", " ", "A", "c", "c", "e", "s", "s", " ", "c", "o", "n",
                "t", "r", "o", "l", " ", "(", "u", "n", "i", "q", "u", "e",
                " ", "u", "s", "e", "r", " ", "I", "D", ",", " ", "e", "m",
                "e", "r", "g", "e", "n", "c", "y", " ", "a", "c", "c", "e",
                "s", "s", ")">>
            >>,
         gdpr |->
            <<
              \* "ART32-1B - Ability to ensure ongoing confidentiality of systems and services"
              <<"A", "R", "T", "3", "2", "-", "1", "B", " ", "-", " ", "A",
                "b", "i", "l", "i", "t", "y", " ", "t", "o", " ", "e", "n",
                "s", "u", "r", "e", " ", "o", "n", "g", "o", "i", "n", "g",
                " ", "c", "o", "n", "f", "i", "d", "e", "n", "t", "i", "a",
                "l", "i", "t", "y", " ", "o", "f", " ", "s", "y", "s", "t",
                "e", "m", "s", " ", "a", "n", "d", " ", "s", "e", "r", "v",
                "i", "c", "e", "s">>
            >>],
     network_security |->
        [iso_27001 |->
            <<
              \* "A.8.20 - Network security"
              <<"A", ".", "8", ".", "2", "0", " ", "-", " ", "N", "e", "t",
                "w", "o", "r", "k", " ", "s", "e", "c", "u", "r", "i", "t",
                "y">>,
              \* "A.8.21 - Security of network services"
              <<"A", ".", "8", ".", "2", "1", " ", "-", " ", "S", "e", "c",
                "u", "r", "i", "t", "y", " ", "o", "f", " ", "n", "e", "t",
                "w", "o", "r", "k", " ", "s", "e", "r", "v", "i", "c", "e",
                "s">>
            >>,
         hipaa |->
            <<
              \* "TECH-TRANSMISSION - Transmission security"
              <<"T", "E", "C", "H", "-", "T", "R", "A", "N", "S", "M", "I",
                "S", "S", "I", "O", "N", " ", "-", " ", "T", "r", "a", "n",
                "s", "m", "i", "s", "s", "i", "o", "n", " ", "s", "e", "c",
                "u", "r", "i", "t", "y">>,
              \* "TECH-INTEGRITY - Protection against improper alteration or destruction"
              <<"T", "E", "C", "H", "-", "I", "N", "T", "E", "G", "R", "I",
                "T", "Y", " ", "-", " ", "P", "r", "o", "t", "e", "c", "t",
                "i", "o", "n", " ", "a", "g", "a", "i", "n", "s", "t", " ",
                "i", "m", "p", "r", "o", "p", "e", "r", " ", "a", "l", "t",
                "e", "r", "a", "t", "i", "o", "n", " ", "o", "r", " ", "d",
                "e", "s", "t", "r", "u", "c", "t", "i", "o", "n">>
            >>,
         gdpr |->
            <<
              \* "ART32-1D - Process for regularly testing and evaluating security measures"
              <<"A", "R", "T", "3", "2", "-", "1", "D", " ", "-", " ", "P",
                "r", "o", "c", "e", "s", "s", " ", "f", "o", "r", " ", "r",
                "e", "g", "u", "l", "a", "r", "l", "y", " ", "t", "e", "s",
                "t", "i", "n", "g", " ", "a", "n", "d", " ", "e", "v", "a",
                "l", "u", "a", "t", "i", "n", "g", " ", "s", "e", "c", "u",
                "r", "i", "t", "y", " ", "m", "e", "a", "s", "u", "r", "e",
                "s">>
            >>],
     device_security |->
        [iso_27001 |->
            <<
              \* "A.7.8 - Protection of information stored on endpoint devices"
              <<"A", ".", "7", ".", "8", " ", "-", " ", "P", "r", "o", "t",
                "e", "c", "t", "i", "o", "n", " ", "o", "f", " ", "i", "n",
                "f", "o", "r", "m", "a", "t", "i", "o", "n", " ", "s", "t",
                "o", "r", "e", "d", " ", "o", "n", " ", "e", "n", "d", "p",
                "o", "i", "n", "t", " ", "d", "e", "v", "i", "c", "e", "s">>,
              \* "A.7.5 - Secure disposal or re-use of equipment"
              <<"A", ".", "7", ".", "5", " ", "-", " ", "S", "e", "c", "u",
                "r", "e", " ", "d", "i", "s", "p", "o", "s", "a", "l", " ",
                "o", "r", " ", "r", "e", "-", "u", "s", "e", " ", "o", "f",
                " ", "e", "q", "u", "i", "p", "m", "e", "n", "t">>
            >>,
         hipaa |->
            <<
              \* "PHYS-DEVICE - Device and media controls"
              <<"P", "H", "Y", "S", "-", "D", "E", "V", "I", "C", "E", " ",
                "-", " ", "D", "e", "v", "i", "c", "e", " ", "a", "n", "d",
                " ", "m", "e", "d", "i", "a", " ", "c", "o", "n", "t", "r",
                "o", "l", "s">>,
              \* "PHYS-WORKSTATION - Workstation security"
              <<"P", "H", "Y", "S", "-", "W", "O", "R", "K", "S", "T", "A",
                "T", "I", "O", "N", " ", "-", " ", "W", "o", "r", "k", "s",
                "t", "a", "t", "i", "o", "n", " ", "s", "e", "c", "u", "r",
                "i", "t", "y">>
            >>,
         gdpr |->
            <<
              \* "ART32-1B - Confidentiality, integrity and availability of processing systems"
              <<"A", "R", "T", "3", "2", "-", "1", "B", " ", "-", " ", "C",
                "o", "n", "f", "i", "d", "e", "n", "t", "i", "a", "l", "i",
                "t", "y", ",", " ", "i", "n", "t", "e", "g", "r", "i", "t",
                "y", " ", "a", "n", "d", " ", "a", "v", "a", "i", "l", "a",
                "b", "i", "l", "i", "t", "y", " ", "o", "f", " ", "p", "r",
                "o", "c", "e", "s", "s", "i", "n", "g", " ", "s", "y", "s",
                "t", "e", "m", "s">>
            >>],
     data_protection |->
        [iso_27001 |->
            <<
              \* "A.8.10 - Information deletion"
              <<"A", ".", "8", ".", "1", "0", " ", "-", " ", "I", "n", "f",
                "o", "r", "m", "a", "t", "i", "o", "n", " ", "d", "e", "l",
                "e", "t", "i", "o", "n">>,
              \* "A.8.24 - Cryptographic controls"
              <<"A", ".", "8", ".", "2", "4", " ", "-", " ", "C", "r", "y",
                "p", "t", "o", "g", "r", "a", "p", "h", "i", "c", " ", "c",
                "o", "n", "t", "r", "o", "l", "s">>,
              \* "A.5.12 - Classification of information"
              <<"A", ".", "5", ".", "1", "2", " ", "-", " ", "C", "l", "a",
                "s", "s", "i", "f", "i", "c", "a", "t", "i", "o", "n", " ",
                "o", "f", " ", "i", "n", "f", "o", "r", "m", "a", "t", "i",
                "o", "n">>
            >>,
         hipaa |->
            <<
              \* "ADMIN-DATA-GOV - Information access management"
              <<"A", "D", "M", "I", "N", "-", "D", "A", "T", "A", "-", "G",
                "O", "V", " ", "-", " ", "I", "n", "f", "o", "r", "m", "a",
                "t", "i", "o", "n", " ", "a", "c", "c", "e", "s", "s", " ",
                "m", "a", "n", "a", "g", "e", "m", "e", "n", "t">>,
              \* "TECH-ENCRYPTION - Encryption and decryption of electronic PHI"
              <<"T", "E", "C", "H", "-", "E", "N", "C", "R", "Y", "P", "T",
                "I", "O", "N", " ", "-", " ", "E", "n", "c", "r", "y", "p",
                "t", "i", "o", "n", " ", "a", "n", "d", " ", "d", "e", "c",
                "r", "y", "p", "t", "i", "o", "n", " ", "o", "f", " ", "e",
                "l", "e", "c", "t", "r", "o", "n", "i", "c", " ", "P", "H",
                "I">>
            >>,
         gdpr |->
            <<
              \* "ART32-1A - Pseudonymisation and encryption of personal data"
              <<"A", "R", "T", "3", "2", "-", "1", "A", " ", "-", " ", "P",
                "s", "e", "u", "d", "o", "n", "y", "m", "i", "s", "a", "t",
                "i", "o", "n", " ", "a", "n", "d", " ", "e", "n", "c", "r",
                "y", "p", "t", "i", "o", "n", " ", "o", "f", " ", "p", "e",
                "r", "s", "o", "n", "a", "l", " ", "d", "a", "t", "a">>,
              \* "ART32-1C - Ability to restore availability and access in a timely manner"
              <<"A", "R", "T", "3", "2", "-", "1", "C", " ", "-", " ", "A",
                "b", "i", "l", "i", "t", "y", " ", "t", "o", " ", "r", "e",
                "s", "t", "o", "r", "e", " ", "a", "v", "a", "i", "l", "a",
                "b", "i", "l", "i", "t", "y", " ", "a", "n", "d", " ", "a",
                "c", "c", "e", "s", "s", " ", "i", "n", " ", "a", " ", "t",
                "i", "m", "e", "l", "y", " ", "m", "a", "n", "n", "e", "r">>
            >>],
     logging_monitoring |->
        [iso_27001 |->
            <<
              \* "A.8.15 - Logging"
              <<"A", ".", "8", ".", "1", "5", " ", "-", " ", "L", "o", "g",
                "g", "i", "n", "g">>,
              \* "A.8.16 - Monitoring activities"
              <<"A", ".", "8", ".", "1", "6", " ", "-", " ", "M", "o", "n",
                "i", "t", "o", "r", "i", "n", "g", " ", "a", "c", "t", "i",
                "v", "i", "t", "i", "e", "s">>
            >>,
         hipaa |->
            <<
              \* "TECH-AUDIT - Audit controls"
              <<"T", "E", "C", "H", "-", "A", "U", "D", "I", "T", " ", "-",
                " ", "A", "u", "d", "i", "t", " ", "c", "o", "n", "t", "r",
                "o", "l", "s">>,
              \* "ADMIN-SECURITY-INCIDENT - Security incident procedures"
              <<"A", "D", "M", "I", "N", "-", "S", "E", "C", "U", "R", "I",
                "T", "Y", "-", "I", "N", "C", "I", "D", "E", "N", "T", " ",
                "-", " ", "S", "e", "c", "u", "r", "i", "t", "y", " ", "i",
                "n", "c", "i", "d", "e", "n", "t", " ", "p", "r", "o", "c",
                "e", "d", "u", "r", "e", "s">>
            >>,
         gdpr |->
            <<
              \* "ART32-1D - Regular testing, assessing and evaluating effectiveness"
              <<"A", "R", "T", "3", "2", "-", "1", "D", " ", "-", " ", "R",
                "e", "g", "u", "l", "a", "r", " ", "t", "e", "s", "t", "i",
                "n", "g", ",", " ", "a", "s", "s", "e", "s", "s", "i", "n",
                "g", " ", "a", "n", "d", " ", "e", "v", "a", "l", "u", "a",
                "t", "i", "n", "g", " ", "e", "f", "f", "e", "c", "t", "i",
                "v", "e", "n", "e", "s", "s">>
            >>],
     general |->
        [iso_27001 |->
            <<
              \* "A.5.1 - Information security policy"
              <<"A", ".", "5", ".", "1", " ", "-", " ", "I", "n", "f", "o",
                "r", "m", "a", "t", "i", "o", "n", " ", "s", "e", "c", "u",
                "r", "i", "t", "y", " ", "p", "o", "l", "i", "c", "y">>,
              \* "A.5.23 - Information security in use of cloud services"
              <<"A", ".", "5", ".", "2", "3", " ", "-", " ", "I", "n", "f",
                "o", "r", "m", "a", "t", "i", "o", "n", " ", "s", "e", "c",
                "u", "r", "i", "t", "y", " ", "i", "n", " ", "u", "s", "e",
                " ", "o", "f", " ", "c", "l", "o", "u", "d", " ", "s", "e",
                "r", "v", "i", "c", "e", "s">>
            >>,
         hipaa |->
            <<
              \* "ADMIN-RISK-MANAGEMENT - Risk analysis and risk management"
              <<"A", "D", "M", "I", "N", "-", "R", "I", "S", "K", "-", "M",
                "A", "N", "A", "G", "E", "M", "E", "N", "T", " ", "-", " ",
                "R", "i", "s", "k", " ", "a", "n", "a", "l", "y", "s", "i",
                "s", " ", "a", "n", "d", " ", "r", "i", "s", "k", " ", "m",
                "a", "n", "a", "g", "e", "m", "e", "n", "t">>
            >>,
         gdpr |->
            <<
              \* "ART32-1 - Appropriate technical and organisational measures based on risk"
              <<"A", "R", "T", "3", "2", "-", "1", " ", "-", " ", "A", "p",
                "p", "r", "o", "p", "r", "i", "a", "t", "e", " ", "t", "e",
                "c", "h", "n", "i", "c", "a", "l", " ", "a", "n", "d", " ",
                "o", "r", "g", "a", "n", "i", "s", "a", "t", "i", "o", "n",
                "a", "l", " ", "m", "e", "a", "s", "u", "r", "e", "s", " ",
                "b", "a", "s", "e", "d", " ", "o", "n", " ", "r", "i", "s",
                "k">>
            >>]]

Frameworks == <<"iso_27001", "hipaa", "gdpr">>

\* self._domain_mappings.get(domain, self._domain_mappings["general"]): the
\* default is evaluated before get() is called, so a table without "general"
\* raises KeyError whatever the domain is.
lookup_mapping(self, domain) ==
    IF "general" \notin DOMAIN self THEN [status |-> "KeyError", mapping |-> <<>>]
    ELSE IF domain \in DOMAIN self THEN [status |-> "ok", mapping |-> self[domain]]
    ELSE [status |-> "ok", mapping |-> self["general"]]

\* The sanitised asset and threat of row i, and its risk identifier.
row_asset(df, i) == sanitize_text(PyStr(df.rows[i]["Asset"]))

row_threat(df, i) == sanitize_text(PyStr(df.rows[i]["Threat"]))

risk_id(asset, threat) == asset \o <<":", ":">> \o threat

row_risk_level(df, i) ==
    IF ~HasColumn(df, "RiskLevel") THEN NoneCell
    ELSE LET rl == df.rows[i]["RiskLevel"]
         IN  IF rl.t # "none" /\ strip(PyStr(rl)) # <<>>
             THEN normalize_risk_level(StrCell(PyStr(rl)))
             ELSE NoneCell

\* The dictionary stored under results[risk_id] for row i.
row_entry(self, df, i) ==
    LET asset == row_asset(df, i)
        threat == row_threat(df, i)
        level == row_risk_level(df, i)
        domain == classify_domain(asset, threat, level)
    IN  [asset |-> asset, threat |-> threat, risk_level |-> level, domain |-> domain,
         recommended_controls |-> lookup_mapping(self, domain).mapping]

\* map_risks_to_controls: [status, entries]; entries maps each risk
\* identifier to the entry of the last row that produced it.
map_risks_to_controls(self, risks) ==
    LET r == dataframe_from_input(risks)
    IN  IF r.status # "ok" THEN [status |-> r.status, entries |-> <<>>]
        ELSE IF "general" \notin DOMAIN self THEN [status |-> "KeyError", entries |-> <<>>]
        ELSE LET df == r.df
                 id(i) == risk_id(row_asset(df, i), row_threat(df, i))
                 ids == {id(i) : i \in DOMAIN df.rows}
                 lastRow(k) == CHOOSE i \in DOMAIN df.rows :
                                  /\ id(i) = k
                                  /\ \A j \in DOMAIN df.rows : id(j) = k => j <= i
             IN  [status |-> "ok",
                  entries |-> [k \in ids |-> row_entry(self, df, lastRow(k))]]

\* normalized_implemented[framework]
normalized_implemented(implemented_controls, framework) ==
    IF implemented_controls.none THEN {}
    ELSE LET values == IF framework \in DOMAIN implemented_controls.map
                       THEN implemented_controls.map[framework]
                       ELSE <<>>
         IN  {lower(split_first(strip(values[i]))) :
                 i \in {j \in DOMAIN values : strip(values[j]) # <<>>}}

is_implemented_exact(control, tokens) == split_first(control) \in tokens

\* control.split()[0].lower() in normalized_implemented[framework]
is_implemented(control, tokens) == lower(split_first(control)) \in tokens

implemented_subset(rec_controls, tokens) ==
    LET Keep(control) == is_implemented(control, tokens)
    IN  SelectSeq(rec_controls, Keep)

missing_subset_all(rec_controls, tokens) == rec_controls

missing_subset(rec_controls, tokens) ==
    LET Keep(control) == ~is_implemented(control, tokens)
    IN  SelectSeq(rec_controls, Keep)

\* generate_gap_analysis: [status, entries]
generate_gap_analysis(self, risks, implemented_controls) ==
    LET recommended == map_risks_to_controls(self, risks)
    IN  IF recommended.status # "ok" THEN recommended
        ELSE IF \E k \in DOMAIN recommended.entries, f \in Range(Frameworks) :
                   \E c \in Range(recommended.entries[k].recommended_controls[f]) : IsBlank(c)
        THEN [status |-> "IndexError", entries |-> <<>>]
        ELSE LET normalized == [f \in Range(Frameworks) |->
                                   normalized_implemented(implemented_controls, f)]
                 tokens(f) == normalized[f]
             IN
             [status |-> "ok",
              entries |->
                [k \in DOMAIN recommended.entries |->
                    LET info == recommended.entries[k]
                        rec(f) == info.recommended_controls[f]
                    IN  [asset |-> info.asset, threat |-> info.threat,
                         risk_level |-> info.risk_level, domain |-> info.domain,
                         recommended_controls |-> info.recommended_controls,
                         implemented_controls |->
                            [f \in Range(Frameworks) |-> implemented_subset(rec(f), tokens(f))],
                         missing_controls |->
                            [f \in Range(Frameworks) |-> missing_subset(rec(f), tokens(f))]]]]

-----------------------------------------------------------------------------
(* RiskAssessmentEngine: sanitisation and export *)

dangerous_prefixes == {"=", "+", "-", "@"}

sanitize_value_any_text(value) ==
    IF value.t = "str" /\ Len(value.s) > 0 /\ ~(value.s[1] = "'")
    THEN StrCell(<<"'">> \o value.s)
    ELSE value

sanitize_value_blank_null(value) ==
    IF value.t = "str" /\ Len(value.s) > 0
       /\ value.s[1] \in dangerous_prefixes /\ ~(value.s[1] = "'")
    THEN StrCell(<<"'">> \o value.s)
    ELSE IF value.t \in {"nan", "none"} THEN StrCell(<<>>)
    ELSE value

\* _sanitize_value inside _sanitize_dataframe
sanitize_value(value) ==
    IF value.t = "str" /\ Len(value.s) > 0
       /\ value.s[1] \in dangerous_prefixes /\ ~(value.s[1] = "'")
    THEN StrCell(<<"'">> \o value.s)
    ELSE value

\* _sanitize_dataframe: a copy, its object columns mapped through _sanitize_value.
sanitize_dataframe(df) ==
    [columns |-> df.columns,
     rows |-> [i \in DOMAIN df.rows |->
                 [c \in Range(df.columns) |->
                     IF is_object_dtype(df, c) THEN sanitize_value(df.rows[i][c])
                     ELSE df.rows[i][c]]]]

\* One field of a line written by DataFrame.to_csv: missing values are empty.
csv_field(c) == IF c.t \in {"nan", "none"} THEN <<>> ELSE PyStr(c)

\* DataFrame.to_csv(path, index=False): the header line, then a line per
\* row; a line is the sequence of its fields.
to_csv(df) ==
    <<df.columns>>
    \o [i \in DOMAIN df.rows |-> [j \in DOMAIN df.columns |-> csv_field(df.rows[i][df.columns[j]])]]

\* The file system as export_csv sees it: the parent directory of the
\* destination and the destination file.
Absent == [exists |-> FALSE, data |-> <<>>]

FileWith(lines) == [exists |-> TRUE, data |-> lines]

\* Outcomes of the writing that to_csv does: it completes, open() raises
\* OSError, or a write raises OSError once the file has been opened for
\* writing (truncated) and `written` lines have reached it.
IoOk == [kind |-> "ok", written |-> 0]

IoOpenError == [kind |-> "open_error", written |-> 0]

IoWriteError(k) == [kind |-> "write_error", written |-> k]

IoOutcomes(lines) ==
    {IoOk, IoOpenError} \cup {IoWriteError(k) : k \in 0..(Len(lines) - 1)}

overwrite_refused_never(files, overwrite) == FALSE

\* resolved_output.exists() and not overwrite
overwrite_refused(files, overwrite) == files.file.exists /\ ~overwrite

\* export_csv on the file system `files`, the writing ending as `io` says:
\* [status, fs]; status is "ok" or the error raised, fs the file system left.
export_csv(files, df, overwrite, io) ==
    IF ~files.dir
    THEN [status |-> "RiskAssessmentError", fs |-> files]
    ELSE IF overwrite_refused(files, overwrite)
    THEN [status |-> "RiskAssessmentError", fs |-> files]
    ELSE LET lines == to_csv(sanitize_dataframe(df))
         IN  CASE io.kind = "ok" ->
                    [status |-> "ok", fs |-> [files EXCEPT !.file = FileWith(lines)]]
               [] io.kind = "open_error" ->
                    [status |-> "RiskAssessmentError", fs |-> files]
               [] io.kind = "write_error" ->
                    [status |-> "RiskAssessmentError",
                     fs |-> [files EXCEPT !.file = FileWith(SubSeq(lines, 1, io.written))]]

-----------------------------------------------------------------------------
(* RiskAssessmentEngine: loading *)

\* Hard limit for CSV files (10 MiB), in bytes.
MAX_FILE_SIZE_BYTES == 10 * 1024 * 1024

\* The strings pd.read_csv reads as a missing value (its default na_values).
NaTexts ==
    {<<>>,
     <<"#", "N", "/", "A">>,
     <<"#", "N", "/", "A", " ", "N", "/", "A">>,
     <<"#", "N", "A">>,
     <<"-", "1", ".", "#", "I", "N", "D">>,
     <<"-", "1", ".", "#", "Q", "N", "A", "N">>,
     <<"-", "N", "a", "N">>,
     <<"-", "n", "a", "n">>,
     <<"1", ".", "#", "I", "N", "D">>,
     <<"1", ".", "#", "Q", "N", "A", "N">>,
     <<"<", "N", "A", ">">>,
     <<"N", "/", "A">>,
     <<"N", "A">>,
     <<"N", "U", "L", "L">>,
     <<"N", "a", "N">>,
     <<"N", "o", "n", "e">>,
     <<"n", "/", "a">>,
     <<"n", "a", "n">>,
     <<"n", "u", "l", "l">>}

\* One column of the parsed file, as pd.read_csv infers it from the fields
\* of the data lines: a missing value is NaN; if every other field is a
\* number the column is numeric (int64 or float64), otherwise it is an object
\* column whose other cells are the strings as written.
read_column(fields) ==
    LET present == {i \in DOMAIN fields : fields[i] \notin NaTexts}
        numeric == \A i \in present : ParseNum(fields[i]).t = "num"
    IN  [i \in DOMAIN fields |->
            IF i \notin present THEN NaN
            ELSE IF numeric THEN ParseNum(fields[i])
            ELSE StrCell(fields[i])]

read_csv_empty_frame(file) ==
    CASE file.kind = "unreadable" -> [status |-> "OSError", df |-> <<>>]
      [] file.kind = "undecodable" -> [status |-> "UnicodeDecodeError", df |-> <<>>]
      [] file.kind = "malformed" -> [status |-> "ParserError", df |-> <<>>]
      [] file.kind = "csv" /\ file.data = <<>> ->
            [status |-> "ok", df |-> [columns |-> <<>>, rows |-> <<>>]]
      [] OTHER ->
            LET header == file.data[1]
                n == Len(file.data) - 1
                column(j) == read_column([i \in 1..n |-> file.data[i + 1][j]])
            IN  [status |-> "ok",
                 df |-> [columns |-> header,
                         rows |-> [i \in 1..n |->
                                     [c \in Range(header) |->
                                         column(CHOOSE j \in DOMAIN header : header[j] = c)[i]]]]]

\* pd.read_csv(resolved, encoding, delimiter) on a file whose bytes decode
\* and tokenize: [status, df].  A file with no line at all raises
\* pandas.errors.EmptyDataError; bytes that do not decode raise
\* UnicodeDecodeError; a tokenizing error raises pandas.errors.ParserError
\* and a failing read raises OSError.
read_csv(file) ==
    CASE file.kind = "unreadable" -> [status |-> "OSError", df |-> <<>>]
      [] file.kind = "undecodable" -> [status |-> "UnicodeDecodeError", df |-> <<>>]
      [] file.kind = "malformed" -> [status |-> "ParserError", df |-> <<>>]
      [] file.kind = "csv" /\ file.data = <<>> ->
            [status |-> "EmptyDataError", df |-> <<>>]
      [] OTHER ->
            LET header == file.data[1]
                n == Len(file.data) - 1
                column(j) == read_column([i \in 1..n |-> file.data[i + 1][j]])
            IN  [status |-> "ok",
                 df |-> [columns |-> header,
                         rows |-> [i \in 1..n |->
                                     [c \in Range(header) |->
                                         column(CHOOSE j \in DOMAIN header : header[j] = c)[i]]]]]

\* str.lower() of a column name, for the names that occur in headers.
name_lower(c) ==
    CASE
         c = "Asset" -> "asset"
      [] c = "asset" -> "asset"
      [] c = "ASSET" -> "asset"
      [] c = "Threat" -> "threat"
      [] c = "THREAT" -> "threat"
      [] c = "Probability" -> "probability"
      [] c = "probability" -> "probability"
      [] c = "Likelihood" -> "likelihood"
      [] c = "LIKELIHOOD" -> "likelihood"
      [] c = "Probabilité" -> "probabilité"
      [] c = "Probabilite" -> "probabilite"
      [] c = "Impact" -> "impact"
      [] c = "impact" -> "impact"
      [] c = "Severity" -> "severity"
      [] c = "ImpactBusiness" -> "impactbusiness"
      [] c = "Gravité" -> "gravité"
      [] c = "Gravite" -> "gravite"
      [] c = "Risk" -> "risk"
      [] c = "RiskLevel" -> "risklevel"
      [] c = "Notes" -> "notes"
      [] c = "not" -> "not"
      [] c = "really" -> "really"
      [] c = "a" -> "a"
      [] c = "header" -> "header"
      [] OTHER -> c

LIKELIHOOD_ALIASES == <<"Likelihood", "Probabilité", "Probabilite">>

IMPACT_ALIASES == <<"Severity", "ImpactBusiness", "Gravité", "Gravite">>

\* columns_lower = {col.lower(): col for col in df.columns}: of the columns
\* sharing a lower-cased name the last one is kept.
columns_lower(columns, key) ==
    LET hits == {j \in DOMAIN columns : name_lower(columns[j]) = key}
    IN  IF hits = {} THEN "" ELSE columns[CHOOSE j \in hits : \A k \in hits : k <= j]

in_columns_lower(columns, key) ==
    \E j \in DOMAIN columns : name_lower(columns[j]) = key

first_alias_last(columns, aliases) ==
    LET hits == {a \in DOMAIN aliases : in_columns_lower(columns, name_lower(aliases[a]))}
    IN  IF hits = {} THEN 0 ELSE CHOOSE a \in hits : \A b \in hits : b <= a

\* The first alias, in order, whose lower-cased form is a key of
\* columns_lower; 0 if there is none.
first_alias(columns, aliases) ==
    LET hits == {a \in DOMAIN aliases : in_columns_lower(columns, name_lower(aliases[a]))}
    IN  IF hits = {} THEN 0 ELSE CHOOSE a \in hits : \A b \in hits : a <= b

\* rename_map of _normalise_columns, as the set of pairs <<old, new>>.
rename_map(columns) ==
    LET probs == <<PROBABILITY_COLUMN>> \o LIKELIHOOD_ALIASES
        imps == <<IMPACT_COLUMN>> \o IMPACT_ALIASES
        p == first_alias(columns, probs)
        q == first_alias(columns, imps)
    IN  (IF p = 0 THEN {}
         ELSE {<<columns_lower(columns, name_lower(probs[p])), PROBABILITY_COLUMN>>})
        \cup
        (IF q = 0 THEN {}
         ELSE {<<columns_lower(columns, name_lower(imps[q])), IMPACT_COLUMN>>})
        \cup
        {<<columns_lower(columns, name_lower(canonical)), canonical>> :
            canonical \in {c \in {ASSET_COLUMN, THREAT_COLUMN} :
                              /\ in_columns_lower(columns, name_lower(c))
                              /\ columns_lower(columns, name_lower(c)) # c}}

\* The new label of a column under df.rename(columns=rename_map).
renamed(columns, c) ==
    LET m == rename_map(columns)
    IN  IF \E pr \in m : pr[1] = c THEN (CHOOSE pr \in m : pr[1] = c)[2] ELSE c

\* _normalise_columns.  The result is a frame: labels holds the column labels
\* after renaming, which may repeat; column j of the frame has the cells of
\* column df.columns[j] of df.
normalise_columns(df) ==
    [labels |-> [j \in DOMAIN df.columns |-> renamed(df.columns, df.columns[j])],
     df |-> df]

Distinct(seq) == \A i, j \in DOMAIN seq : seq[i] = seq[j] => i = j

\* The frame as a table keyed by its labels, when no label repeats.
frame_table(frame) ==
    [columns |-> frame.labels,
     rows |-> [i \in DOMAIN frame.df.rows |->
                 [c \in Range(frame.labels) |->
                     frame.df.rows[i][frame.df.columns[
                         CHOOSE j \in DOMAIN frame.labels : frame.labels[j] = c]]]]]

\* _validate_structure on a frame.  With a repeated Probability or Impact
\* label df[col] is a DataFrame: is_numeric_dtype is False of it and
\* pd.to_numeric raises TypeError.  Repeated labels elsewhere are not looked at.
validate_frame(frame) ==
    LET required == {ASSET_COLUMN, THREAT_COLUMN, PROBABILITY_COLUMN, IMPACT_COLUMN}
        count(c) == Cardinality({j \in DOMAIN frame.labels : frame.labels[j] = c})
        first(c) == frame.df.columns[CHOOSE j \in DOMAIN frame.labels : frame.labels[j] = c]
    IN  IF \E c \in required : count(c) = 0 THEN "RiskMatrixValidationError"
        ELSE IF count(PROBABILITY_COLUMN) > 1 THEN "TypeError"
        ELSE IF /\ ~is_numeric_dtype(frame.df, first(PROBABILITY_COLUMN))
                /\ \E i \in DOMAIN frame.df.rows :
                      to_numeric(frame.df.rows[i][first(PROBABILITY_COLUMN)]).t = "nan"
             THEN "RiskMatrixValidationError"
        ELSE IF count(IMPACT_COLUMN) > 1 THEN "TypeError"
        ELSE IF /\ ~is_numeric_dtype(frame.df, first(IMPACT_COLUMN))
                /\ \E i \in DOMAIN frame.df.rows :
                      to_numeric(frame.df.rows[i][first(IMPACT_COLUMN)]).t = "nan"
             THEN "RiskMatrixValidationError"
        ELSE "ok"

NoFrame == [labels |-> <<>>, df |-> [columns |-> <<>>, rows |-> <<>>]]

LoadFails(status, stage) == [status |-> status, stage |-> stage, frame |-> NoFrame]

load_csv_validate_first(file) ==
    IF ~file.exists THEN LoadFails("FileNotFoundError", "resolve")
    ELSE IF file.kind = "unresolvable" THEN LoadFails("RiskAssessmentError", "resolve")
    ELSE IF file.kind = "no_metadata" THEN LoadFails("RiskAssessmentError", "size")
    ELSE IF file.size > MAX_FILE_SIZE_BYTES THEN LoadFails("RiskAssessmentError", "size")
    ELSE
      LET parsed == read_csv(file)
      IN  IF parsed.status \in {"OSError", "ParserError"}
          THEN LoadFails("RiskAssessmentError", "parse")
          ELSE IF parsed.status # "ok" THEN LoadFails(parsed.status, "parse")
          ELSE
            LET frame == normalise_columns(sanitize_dataframe(parsed.df))
                valid == validate_frame(frame)
            IN  IF valid # "ok" THEN LoadFails(valid, "validate")
                ELSE IF parsed.df.rows = <<>>
                THEN LoadFails("RiskMatrixValidationError", "empty")
                ELSE [status |-> "ok", stage |-> "done", frame |-> frame]

\* load_csv on the file found at the path: [status, stage, frame]; status is
\* "ok" or the exception that leaves load_csv, stage the step that raised it
\* ("done" when none did), frame the returned table when status = "ok".
load_csv(file) ==
    IF ~file.exists THEN LoadFails("FileNotFoundError", "resolve")
    ELSE IF file.kind = "unresolvable" THEN LoadFails("RiskAssessmentError", "resolve")
    ELSE IF file.kind = "no_metadata" THEN LoadFails("RiskAssessmentError", "size")
    ELSE IF file.size > MAX_FILE_SIZE_BYTES THEN LoadFails("RiskAssessmentError", "size")
    ELSE
      LET parsed == read_csv(file)
      IN  IF parsed.status \in {"OSError", "ParserError"}
          THEN LoadFails("RiskAssessmentError", "parse")
          ELSE IF parsed.status # "ok" THEN LoadFails(parsed.status, "parse")
          ELSE IF parsed.df.rows = <<>>
          THEN LoadFails("RiskMatrixValidationError", "empty")
          ELSE
            LET frame == normalise_columns(sanitize_dataframe(parsed.df))
                valid == validate_frame(frame)
            IN  IF valid # "ok" THEN LoadFails(valid, "validate")
                ELSE [status |-> "ok", stage |-> "done", frame |-> frame]

-----------------------------------------------------------------------------
(* Inputs of the engine's operations *)

MaxRows == 2

MaxScore == 30

\* Thresholds an engine can be constructed with: the defaults, another
\* ordered triple, and a triple out of order (the dataclass checks nothing).
ThresholdChoices ==
    {DefaultThresholds,
     [low_max |-> 2, medium_max |-> 6, high_max |-> 12],
     [low_max |-> 9, medium_max |-> 4, high_max |-> 16]}

ScoreRange == (-3) .. MaxScore

\* (Probability, Impact) of one row: every valid integer pair, valid values
\* held as strings or floats, and values that validation must reject.
ProbImpactPairs ==
    {<<IntCell(a), IntCell(b)>> : a \in 1..5, b \in 1..5}
    \cup {<<StrCell(<<"3">>), StrCell(<<"4">>)>>,
          <<StrCell(<<"5">>), IntCell(5)>>,
          <<IntCell(0), IntCell(3)>>,
          <<IntCell(6), IntCell(5)>>,
          <<IntCell(3), IntCell(6)>>,
          <<NumCell(5), IntCell(2)>>,
          <<StrCell(<<"x">>), IntCell(1)>>,
          <<NaN, IntCell(2)>>,
          <<IntCell(1), NaN>>}

\* Columns a table may carry besides the four required ones, with stale cells.
ExtraColumns ==
    {<<>>,
     <<SCORE_COLUMN>>,
     <<LEVEL_COLUMN, SCORE_COLUMN>>}

StaleCell(name) ==
    IF name = SCORE_COLUMN THEN IntCell(99) ELSE StrCell(<<"l", "o", "w">>)

MkRow(n, pi, extra) ==
    [c \in {ASSET_COLUMN, THREAT_COLUMN, PROBABILITY_COLUMN, IMPACT_COLUMN}
           \cup Range(extra) |->
        IF c = ASSET_COLUMN THEN StrCell(<<"A", Digits[n + 1]>>)
        ELSE IF c = THREAT_COLUMN THEN StrCell(<<"T", Digits[n + 1]>>)
        ELSE IF c = PROBABILITY_COLUMN THEN pi[1]
        ELSE IF c = IMPACT_COLUMN THEN pi[2]
        ELSE StaleCell(c)]

MkTable(pis, extra) ==
    [columns |-> <<ASSET_COLUMN, THREAT_COLUMN, PROBABILITY_COLUMN, IMPACT_COLUMN>>
                    \o extra,
     rows |-> [n \in DOMAIN pis |-> MkRow(n, pis[n], extra)]]

\* Rows of the tables of more than one row: the corners and the middle of
\* the valid range, and every pair that is not a pair of integers in 1..5.
MultiRowPairs ==
    {pi \in ProbImpactPairs :
        \/ pi \in {<<IntCell(1), IntCell(1)>>, <<IntCell(5), IntCell(5)>>,
                   <<IntCell(2), IntCell(3)>>, <<IntCell(4), IntCell(5)>>}
        \/ pi \notin {<<IntCell(a), IntCell(b)>> : a \in 1..5, b \in 1..5}}

EngineTables ==
    {MkTable(pis, extra) :
        pis \in [1..1 -> ProbImpactPairs]
                \cup UNION {[1..n -> MultiRowPairs] : n \in 2..MaxRows},
        extra \in ExtraColumns}

\* Tables handed to export_csv: a scored matrix, and a matrix whose Asset
\* and Threat cells begin with formula characters.
MaxCalls == 3

ScoredTable == calculate_scores(DefaultThresholds, MkTable(<<<<IntCell(2), IntCell(3)>>>>, <<>>)).df

FormulaTable ==
    [columns |-> <<ASSET_COLUMN, THREAT_COLUMN, PROBABILITY_COLUMN, IMPACT_COLUMN>>,
     rows |-> <<[c \in {ASSET_COLUMN, THREAT_COLUMN, PROBABILITY_COLUMN, IMPACT_COLUMN} |->
                   CASE c = ASSET_COLUMN -> StrCell(<<"=", "1", "+", "1">>)
                     [] c = THREAT_COLUMN -> StrCell(<<"@", "x">>)
                     [] c = PROBABILITY_COLUMN -> IntCell(5)
                     [] c = IMPACT_COLUMN -> IntCell(4)]>>]

ExportTables == {ScoredTable, FormulaTable}

\* Tables built in memory and handed to export_csv without having been
\* loaded: as Asset a text of UnloadedTexts, in an object column or in a
\* column of the string dtype; a text or a missing value as Threat; numbers
\* (one of them negative) as Probability and Impact.
UnloadedTexts ==
    {<<"=", "1", "+", "1">>, <<"+", "S", "U", "M">>, <<"-", "2">>, <<"@", "x">>,
     <<"'", "=", "o", "k">>, <<"P", "u", "m", "p">>, <<>>, <<" ", "=", "a">>}

UnloadedTable(asset, threat, p) ==
    [columns |-> <<ASSET_COLUMN, THREAT_COLUMN, PROBABILITY_COLUMN, IMPACT_COLUMN>>,
     rows |-> <<[c \in {ASSET_COLUMN, THREAT_COLUMN, PROBABILITY_COLUMN, IMPACT_COLUMN} |->
                   CASE c = ASSET_COLUMN -> asset
                     [] c = THREAT_COLUMN -> threat
                     [] c = PROBABILITY_COLUMN -> p
                     [] c = IMPACT_COLUMN -> IntCell(4)]>>]

UnloadedTables ==
    {UnloadedTable(asset, threat, p) :
        asset \in {StrCell(t) : t \in UnloadedTexts}
                  \cup {ExtStrCell(t) : t \in UnloadedTexts},
        threat \in {StrCell(<<"@", "y">>), StrCell(<<"T">>), NaN},
        p \in {IntCell(3), IntCell(-2)}}

\* What the destination holds before the first call.
OldTable == calculate_scores(DefaultThresholds, MkTable(<<<<IntCell(1), IntCell(1)>>>>, <<>>)).df

InitialFs ==
    {[dir |-> FALSE, file |-> Absent],
     [dir |-> TRUE, file |-> Absent],
     [dir |-> TRUE, file |-> FileWith(to_csv(OldTable))]}

\* Files handed to load_csv.  A data line is drawn from LoadRowChoices as
\* <<asset, threat, probability, impact>> texts; a header gives each of its
\* columns a name and the position of the line's text it carries.
MaxLoadRows == 2

LoadRowChoices ==
    {<<<<"P", "u", "m", "p">>, <<"T", "h", "e", "f", "t">>, <<"3">>, <<"4">>>>,
     <<<<"=", "C", "M", "D">>, <<"+", "S", "U", "M">>, <<"5">>, <<"5">>>>,
     <<<<"-", "x">>, <<"@", "y">>, <<"6">>, <<"5">>>>,
     << <<"B">>, <<"T">>, <<"0">>, <<"3">> >>,
     <<<<"'", "=", "o", "k">>, <<>>, <<"2", ".", "5">>, <<"2">>>>,
     <<<<>>, <<"T">>, <<>>, <<"3">>>>,
     <<<<"A">>, <<"T">>, <<"x">>, <<"1">>>>,
     <<<<"N", "A">>, <<"-", "1">>, <<"1">>, <<>>>>}

LoadHeaders ==
    {<< <<"Asset", 1>>, <<"Threat", 2>>, <<"Probability", 3>>, <<"Impact", 4>> >>,
     << <<"asset", 1>>, <<"THREAT", 2>>, <<"Likelihood", 3>>, <<"Severity", 4>> >>,
     << <<"Impact", 4>>, <<"Probabilité", 3>>, <<"Threat", 2>>, <<"Asset", 1>> >>,
     << <<"Asset", 1>>, <<"Threat", 2>>, <<"Impact", 4>> >>,
     << <<"not", 1>>, <<"really", 2>>, <<"a", 3>>, <<"header", 4>> >>,
     << <<"Asset", 1>>, <<"asset", 2>>, <<"Threat", 2>>, <<"Probability", 3>>, <<"Impact", 4>> >>,
     << <<"Asset", 1>>, <<"Threat", 2>>, <<"Probability", 3>>, <<"probability", 4>>, <<"Impact", 4>> >>,
     << <<"Asset", 1>>, <<"Threat", 2>>, <<"Likelihood", 4>>, <<"Probability", 3>>, <<"Gravite", 4>>, <<"Notes", 1>> >>}

RowSeqs(n) == [1..n -> LoadRowChoices]

\* The lines of a file: the header names, then the fields of each data line.
FileLines(header, rows) ==
    <<[j \in DOMAIN header |-> header[j][1]]>>
    \o [i \in DOMAIN rows |-> [j \in DOMAIN header |-> rows[i][header[j][2]]]]

CsvContents ==
    {<<>>} \cup
    {FileLines(header, rows) :
        header \in LoadHeaders,
        rows \in UNION {RowSeqs(n) : n \in 0..MaxLoadRows}}

\* st_size of the file.  The lines of the model are the file's first lines;
\* a size at or above the ceiling stands for a file that goes on with more
\* lines of the same kind (drawn for files of at most one modelled data line).
FileSizes(data) ==
    IF data = <<>> THEN {0}
    ELSE IF Len(data) > 2 THEN {1024}
    ELSE {1024, MAX_FILE_SIZE_BYTES, MAX_FILE_SIZE_BYTES + 1}

MissingFile == [exists |-> FALSE, kind |-> "csv", size |-> 0, data |-> <<>>]

CsvFile(kind, size, data) == [exists |-> TRUE, kind |-> kind, size |-> size, data |-> data]

FileKinds == {"csv", "unresolvable", "no_metadata", "unreadable", "undecodable", "malformed"}

LoadFiles ==
    {MissingFile}
    \cup {CsvFile("csv", size, data) : size \in {0}, data \in {<<>>}}
    \cup UNION {{CsvFile("csv", size, data) : size \in FileSizes(data)} :
                   data \in CsvContents \ {<<>>}}
    \cup {CsvFile(kind, size, FileLines(header, <<>>)) :
             kind \in FileKinds \ {"csv"},
             size \in {1024, MAX_FILE_SIZE_BYTES + 1},
             header \in LoadHeaders}

\* Values handed to _sanitize_value and _sanitize_text: every text of at
\* most MaxTextLen characters over SanitizeAlphabet, numbers and NaN.
MaxTextLen == 3

SanitizeAlphabet == {"=", "+", "-", "@", "'", "a", " "}

SanitizeTexts == UNION {[1..n -> SanitizeAlphabet] : n \in 0..MaxTextLen}

SanitizeValues ==
    {StrCell(t) : t \in SanitizeTexts}
    \cup {IntCell(-3), IntCell(0), IntCell(4), NumCell(5), NaN, NoneCell}

\* Headers handed to _normalise_columns: every sequence of at most
\* MaxHeaderLen pairwise different names out of HeaderNames.
MaxHeaderLen == 3

HeaderNames ==
    {"Asset", "asset", "Threat", "THREAT",
     "Probability", "probability", "Likelihood", "LIKELIHOOD", "Probabilite",
     "Impact", "Severity", "Gravite",
     "Notes"}

HeaderChoices ==
    UNION {{h \in [1..n -> HeaderNames] : Distinct(h)} : n \in 1..MaxHeaderLen}

\* A one-line table under a header.
HeaderTable(header) ==
    [columns |-> header,
     rows |-> <<[c \in Range(header) |-> StrCell(<<"v">>)]>>]

-----------------------------------------------------------------------------
(* Inputs of the mapper's operations *)

\* Asset and threat texts given to _classify_domain.
ClassifyPhrases ==
    {
      \* "network"
      <<"n", "e", "t", "w", "o", "r", "k">>,
      \* "password"
      <<"p", "a", "s", "s", "w", "o", "r", "d">>,
      \* "Patient Monitor"
      <<"P", "a", "t", "i", "e", "n", "t", " ", "M", "o", "n", "i", "t", "o",
        "r">>,
      \* "Unauthorized access via weak credentials"
      <<"U", "n", "a", "u", "t", "h", "o", "r", "i", "z", "e", "d", " ", "a",
        "c", "c", "e", "s", "s", " ", "v", "i", "a", " ", "w", "e", "a", "k",
        " ", "c", "r", "e", "d", "e", "n", "t", "i", "a", "l", "s">>,
      \* "unauthorized"
      <<"u", "n", "a", "u", "t", "h", "o", "r", "i", "z", "e", "d">>,
      \* "access"
      <<"a", "c", "c", "e", "s", "s">>,
      \* "plan"
      <<"p", "l", "a", "n">>,
      \* "Kids"
      <<"K", "i", "d", "s">>,
      \* "pass"
      <<"p", "a", "s", "s">>,
      \* "word"
      <<"w", "o", "r", "d">>,
      \* "Infusion Pump"
      <<"I", "n", "f", "u", "s", "i", "o", "n", " ", "P", "u", "m", "p">>,
      \* "EHR backup"
      <<"E", "H", "R", " ", "b", "a", "c", "k", "u", "p">>,
      \* "generic"
      <<"g", "e", "n", "e", "r", "i", "c">>,
      \* "=SIEM"
      <<"=", "S", "I", "E", "M">>
    }

\* Rows of a risk table given to the mapper: Asset, Threat, RiskLevel.
MapperRows ==
    {
      \* "a::b", "c", "High"
      << <<"a", ":", ":", "b">>,
        <<"c">>,
        <<"H", "i", "g", "h">> >>,
      \* "a", "b::c", "low"
      << <<"a">>,
        <<"b", ":", ":", "c">>,
        <<"l", "o", "w">> >>,
      \* "=x", "login", " CRITICAL "
      << <<"=", "x">>,
        <<"l", "o", "g", "i", "n">>,
        <<" ", "C", "R", "I", "T", "I", "C", "A", "L", " ">> >>,
      \* "'=x", "login", "low"
      << <<"'", "=", "x">>,
        <<"l", "o", "g", "i", "n">>,
        <<"l", "o", "w">> >>,
      \* "router", "y", "medium"
      << <<"r", "o", "u", "t", "e", "r">>,
        <<"y">>,
        <<"m", "e", "d", "i", "u", "m">> >>,
      \* "Patient Monitor", "Unauthorized access via weak credentials", "high"
      << <<"P", "a", "t", "i", "e", "n", "t", " ", "M", "o", "n", "i", "t", "o", "r">>,
        <<"U", "n", "a", "u", "t", "h", "o", "r", "i", "z", "e", "d", " ",
          "a", "c", "c", "e", "s", "s", " ", "v", "i", "a", " ", "w", "e", "a",
          "k", " ", "c", "r", "e", "d", "e", "n", "t", "i", "a", "l", "s">>,
        <<"h", "i", "g", "h">> >>,
      \* "EHR", "leak", ""
      << <<"E", "H", "R">>,
        <<"l", "e", "a", "k">>,
        <<>> >>,
      \* "a", "c", "critical"
      << <<"a">>,
        <<"c">>,
        <<"c", "r", "i", "t", "i", "c", "a", "l">> >>
    }

\* Caller tables: access_control ("X.1 - One", "x.2" / "H-1 Alpha" / none) and
\* general ("G.1" / none / "ART-9 z"); access_control alone; general alone.
CustomMappings ==
    [access_control |->
        [iso_27001 |-> << <<"X", ".", "1", " ", "-", " ", "O", "n", "e">>,
                        <<"x", ".", "2">> >>,
         hipaa |-> << <<"H", "-", "1", " ", "A", "l", "p", "h", "a">> >>,
         gdpr |-> <<>>],
     general |->
        [iso_27001 |-> << <<"G", ".", "1">> >>,
         hipaa |-> <<>>,
         gdpr |-> << <<"A", "R", "T", "-", "9", " ", "z">> >>]]

MappingsWithoutGeneral ==
    [access_control |->
        [iso_27001 |-> << <<"X", ".", "1", " ", "-", " ", "O", "n", "e">>,
                        <<"x", ".", "2">> >>,
         hipaa |-> << <<"H", "-", "1", " ", "A", "l", "p", "h", "a">> >>,
         gdpr |-> <<>>]]

MappingsOnlyGeneral ==
    [general |->
        [iso_27001 |-> << <<"G", ".", "1">> >>,
         hipaa |-> <<>>,
         gdpr |-> << <<"A", "R", "T", "-", "9", " ", "z">> >>]]

\* iso_27001: "a.5.15", "  "; hipaa: "TECH-ACCESS EXTRA"; no gdpr key.
ImplementedLowerCase ==
    [none |-> FALSE,
     map |->
        [iso_27001 |-> << <<"a", ".", "5", ".", "1", "5">>, <<" ", " ">> >>,
         hipaa |-> << <<"T", "E", "C", "H", "-", "A", "C", "C", "E", "S",
                        "S", " ", "E", "X", "T", "R", "A">> >>]]

\* iso_27001: " A.5.16 - Identity management ", "X.1"; hipaa: "A.5.15" (an ISO identifier), "h-1"; gdpr: "art32-1b".
ImplementedMixed ==
    [none |-> FALSE,
     map |->
        [iso_27001 |-> << <<" ", "A", ".", "5", ".", "1", "6", " ", "-", " ",
                        "I", "d", "e", "n", "t", "i", "t", "y", " ", "m", "a",
                        "n", "a", "g", "e", "m", "e", "n", "t", " ">>, <<"X",
                        ".", "1">> >>,
         hipaa |-> << <<"A", ".", "5", ".", "1", "5">>, <<"h", "-",
                        "1">> >>,
         gdpr |-> << <<"a", "r", "t", "3", "2", "-", "1", "b">> >>]]

\* iso_27001: "A.5.15-extra", "A.5.1"; gdpr: "ART32-1": tokens that are prefixes or extensions of others.
ImplementedNearMisses ==
    [none |-> FALSE,
     map |->
        [iso_27001 |-> << <<"A", ".", "5", ".", "1", "5", "-", "e", "x", "t",
                        "r", "a">>, <<"A", ".", "5", ".", "1">> >>,
         gdpr |-> << <<"A", "R", "T", "3", "2", "-", "1">> >>]]

ImplementedNone == [none |-> TRUE, map |-> <<>>]

ImplementedEmpty == [none |-> FALSE, map |-> <<>>]

DomainOrder ==
    <<"access_control", "network_security", "device_security",
      "data_protection", "logging_monitoring", "general">>

RECURSIVE AllControls(_, _, _)
AllControls(self, framework, n) ==
    IF n = 0 THEN <<>>
    ELSE AllControls(self, framework, n - 1)
            \o (IF DomainOrder[n] \in DOMAIN self
                THEN self[DomainOrder[n]][framework] ELSE <<>>)

\* Every control of the table listed as implemented, upper-cased and
\* followed by " EXTRA" (test_generate_gap_analysis_all_controls_implemented).
ImplementedAll(self) ==
    [none |-> FALSE,
     map |-> [f \in Range(Frameworks) |->
                LET all == AllControls(self, f, Len(DomainOrder))
                IN  [i \in DOMAIN all |-> upper(all[i]) \o <<" ", "E", "X", "T", "R", "A">>]]]

\* What a test passes as implemented_controls, by name.
ImplementedNames == {"none", "empty", "lower_case", "mixed", "near_misses", "all"}

ImplementedChoice(name, self) ==
    CASE name = "none" -> ImplementedNone
      [] name = "empty" -> ImplementedEmpty
      [] name = "lower_case" -> ImplementedLowerCase
      [] name = "mixed" -> ImplementedMixed
      [] name = "near_misses" -> ImplementedNearMisses
      [] name = "all" -> ImplementedAll(self)

\* What a caller passes as domain_mappings, by name: None, or a table.
MappingNames == {"None", "custom", "without_general", "only_general"}

\* ComplianceMapper.__init__: self._domain_mappings.
domain_mappings(name) ==
    CASE name = "None" -> default_domain_mappings
      [] name = "custom" -> CustomMappings
      [] name = "without_general" -> MappingsWithoutGeneral
      [] name = "only_general" -> MappingsOnlyGeneral

ClassifyLevels ==
    {NoneCell, StrCell(LevelText["low"]), StrCell(LevelText["high"]),
     StrCell(LevelText["critical"])}

MkRiskRow(r, withLevel) ==
    IF withLevel
    THEN [Asset |-> StrCell(r[1]), Threat |-> StrCell(r[2]), RiskLevel |-> StrCell(r[3])]
    ELSE [Asset |-> StrCell(r[1]), Threat |-> StrCell(r[2])]

MkRiskTable(rs, withLevel) ==
    [columns |-> IF withLevel THEN <<"Asset", "Threat", "RiskLevel">>
                 ELSE <<"Asset", "Threat">>,
     rows |-> [i \in DOMAIN rs |-> MkRiskRow(rs[i], withLevel)]]

RiskTables ==
    {MkRiskTable(rs, withLevel) :
        rs \in UNION {[1..n -> MapperRows] : n \in 1..MaxRows},
        withLevel \in BOOLEAN}

\* RiskScenario(asset=str(row["Asset"]), threat=str(row["Threat"]), ...,
\* risk_level=str(row.get("RiskLevel", ""))) for each row of a table
\* (test_map_risks_to_controls_from_scenarios).
ScenariosOf(df) ==
    [i \in DOMAIN df.rows |->
        [cls |-> "RiskScenario",
         asset |-> StrCell(PyStr(df.rows[i]["Asset"])),
         threat |-> StrCell(PyStr(df.rows[i]["Threat"])),
         probability |-> NoneCell,
         impact |-> NoneCell,
         risk_score |-> NoneCell,
         risk_level |-> IF HasColumn(df, "RiskLevel")
                        THEN StrCell(PyStr(df.rows[i]["RiskLevel"]))
                        ELSE StrCell(<<>>)]]

DataFrameInput(df) == [kind |-> "DataFrame", df |-> df]

SequenceInput(items) == [kind |-> "Sequence", items |-> items]

\* Inputs the mapper must reject: a dict, None, a Series, a table without rows,
\* a table without columns, an empty sequence, sequences holding something that
\* is no RiskScenario (a dict, the characters of a str, a dict after a
\* RiskScenario), tables without Threat, without Asset, and with both named in
\* lower case.
BadRiskInputs ==
    {[kind |-> "dict"],
     [kind |-> "NoneType"],
     [kind |-> "Series"],
     DataFrameInput([columns |-> <<"Asset", "Threat">>, rows |-> <<>>]),
     DataFrameInput([columns |-> <<>>, rows |-> << <<>> >>]),
     SequenceInput(<<>>),
     SequenceInput(<<[cls |-> "dict"]>>),
     SequenceInput(<<[cls |-> "str"], [cls |-> "str"]>>),
     SequenceInput(Append(ScenariosOf(MkRiskTable(<<<<<<"a">>, <<"c">>, <<>>>>>>, FALSE)),
                          [cls |-> "dict"])),
     DataFrameInput([columns |-> <<"Asset">>, rows |-> <<[Asset |-> StrCell(<<"a">>)]>>]),
     DataFrameInput([columns |-> <<"Threat", "RiskLevel">>,
                     rows |-> <<[Threat |-> StrCell(<<"c">>),
                                 RiskLevel |-> StrCell(<<"h", "i", "g", "h">>)]>>]),
     DataFrameInput([columns |-> <<"asset", "threat">>,
                     rows |-> <<[asset |-> StrCell(<<"a">>), threat |-> StrCell(<<"c">>)]>>])}

\* Spellings of the RiskLevel cell of a row.
LevelSpellings ==
    {StrCell(<<"H", "i", "g", "h">>),
     StrCell(<<"H", "I", "G", "H">>),
     StrCell(<<" ", "C", "R", "I", "T", "I", "C", "A", "L", " ">>),
     StrCell(<<"\t", "c", "r", "i", "t", "i", "c", "a", "l", "\n">>),
     StrCell(<<"h", "i", "g", "h", "e", "s", "t">>),
     StrCell(<<"h", "i", " ", "g", "h">>),
     StrCell(<<"m", "e", "d", "i", "u", "m">>),
     StrCell(<<"l", "o", "w">>),
     StrCell(<<>>),
     StrCell(<<" ", " ">>),
     NaN,
     NoneCell}

\* One-row tables: a row no keyword rule matches ("a", "c"), one that the
\* network rule matches ("router", "y") and one that the data rule matches
\* ("EHR", "leak"), with or without a RiskLevel in each spelling.
LevelTables ==
    LET texts == {<< <<"a">>, <<"c">> >>,
                  << <<"r", "o", "u", "t", "e", "r">>, <<"y">> >>,
                  << <<"E", "H", "R">>, <<"l", "e", "a", "k">> >>}
    IN  {[columns |-> <<"Asset", "Threat", "RiskLevel">>,
          rows |-> <<[Asset |-> StrCell(t[1]), Threat |-> StrCell(t[2]),
                      RiskLevel |-> level]>>] :
            t \in texts, level \in LevelSpellings}
        \cup {MkRiskTable(<<<<t[1], t[2], <<>>>>>>, FALSE) : t \in texts}

RiskInputs ==
    {DataFrameInput(df) : df \in RiskTables}
    \cup {SequenceInput(ScenariosOf(df)) : df \in RiskTables}
    \cup BadRiskInputs
    \cup {DataFrameInput(df) : df \in LevelTables}

\* Inputs of generate_gap_analysis: the same shapes, with fewer rows (each
\* entry of the analysis is computed from one row).
MaxGapRows == 1

GapRiskTables ==
    {MkRiskTable(rs, withLevel) :
        rs \in UNION {[1..n -> MapperRows] : n \in 1..MaxGapRows},
        withLevel \in BOOLEAN}

GapRiskInputs ==
    {DataFrameInput(df) : df \in GapRiskTables}
    \cup {SequenceInput(ScenariosOf(df)) : df \in GapRiskTables}
    \cup BadRiskInputs

-----------------------------------------------------------------------------
(* load_csv, calculate_scores and export_csv in a row *)

\* The table calculate_scores works on when it is given a loaded frame: the
\* columns under their labels.  calculate_scores reads and writes the
\* Probability, Impact, Risk and RiskLevel columns only, and a frame that
\* load_csv returned repeats no label other than Asset and Threat; of a
\* repeated label the first column stands for both.
scoring_table(frame) ==
    LET first(c) == CHOOSE j \in DOMAIN frame.labels :
                        /\ frame.labels[j] = c
                        /\ \A k \in DOMAIN frame.labels : frame.labels[k] = c => j <= k
        kept == SelectSeq([j \in DOMAIN frame.labels |-> j],
                          LAMBDA j : first(frame.labels[j]) = j)
    IN  [columns |-> [k \in DOMAIN kept |-> frame.labels[kept[k]]],
         rows |-> [i \in DOMAIN frame.df.rows |->
                     [c \in Range(frame.labels) |->
                         frame.df.rows[i][frame.df.columns[first(c)]]]]]

\* _sanitize_dataframe on a frame: with a repeated label sanitized[column]
\* is a DataFrame, which has no attribute dtype.
sanitize_frame_status(frame) ==
    IF Distinct(frame.labels) THEN "ok" ELSE "AttributeError"

NotReached == [status |-> "not reached"]

\* scored = calculate_scores(load_csv(path)); export_csv(scored, out) to a
\* destination that does not exist yet; pd.read_csv(out); then
\* calculate_scores(load_csv(out)).  Each step runs if the one before it
\* returned.
scored_after(loaded) ==
    IF loaded.status = "ok"
    THEN calculate_scores(DefaultThresholds, scoring_table(loaded.frame))
    ELSE NotReached

\* engine.export_csv(scored, out) of the round trip: [status, fs].
exported_after(loaded, scored, files) ==
    IF scored.status # "ok" THEN [status |-> "not reached", fs |-> files]
    ELSE IF sanitize_frame_status(loaded.frame) # "ok"
    THEN [status |-> sanitize_frame_status(loaded.frame), fs |-> files]
    ELSE export_csv(files, scored.df, FALSE, IoOk)

\* The exported file, as a file to read.
written_file(exported) == CsvFile("csv", 1024, exported.fs.file.data)

\* pd.read_csv(out)
read_back(exported) ==
    IF exported.status = "ok" THEN read_csv(written_file(exported)) ELSE NotReached

\* engine.load_csv(out)
reloaded_after(exported) ==
    IF exported.status = "ok" THEN load_csv(written_file(exported)) ELSE NotReached

-----------------------------------------------------------------------------
(* Tables as objects.  A caller's DataFrame is an object that the callee   *)
(* reaches through a reference: objs.frames holds the DataFrame objects,   *)
(* each naming its columns and the array that holds each column, and        *)
(* objs.arrays holds the arrays.  A reference is an index.                  *)

NoObjects == [frames |-> <<>>, arrays |-> <<>>]

\* A column of a table, as the sequence of its cells.
ColumnOf(df, name) == [i \in DOMAIN df.rows |-> df.rows[i][name]]

\* A new DataFrame object holding the table df, on arrays of its own.
NewFrame(objs, df) ==
    LET base == Len(objs.arrays)
        k == Len(df.columns)
    IN  [objs |->
            [frames |-> Append(objs.frames,
                           [columns |-> df.columns,
                            n |-> Len(df.rows),
                            data |-> [c \in Range(df.columns) |->
                                        base + (CHOOSE j \in 1..k : df.columns[j] = c)]]),
             arrays |-> objs.arrays \o [j \in 1..k |-> ColumnOf(df, df.columns[j])]],
         ref |-> Len(objs.frames) + 1]

\* The table a DataFrame object holds.
FrameValue(objs, ref) ==
    LET f == objs.frames[ref]
    IN  [columns |-> f.columns,
         rows |-> [i \in 1..f.n |-> [c \in Range(f.columns) |-> objs.arrays[f.data[c]][i]]]]

frame_copy_alias(objs, ref) == [objs |-> objs, ref |-> ref]

\* df.copy(): deep by default, a new object on new arrays.
frame_copy(objs, ref) == NewFrame(objs, FrameValue(objs, ref))

\* frame[name] = values: the object named by ref gets a new array under name.
frame_setitem(objs, ref, name, values) ==
    LET f == objs.frames[ref]
        g == [columns |-> IF name \in Range(f.columns) THEN f.columns
                          ELSE Append(f.columns, name),
              n |-> f.n,
              data |-> [c \in Range(f.columns) \cup {name} |->
                          IF c = name THEN Len(objs.arrays) + 1 ELSE f.data[c]]]
    IN  [frames |-> [objs.frames EXCEPT ![ref] = g],
         arrays |-> Append(objs.arrays, values)]

\* calculate_scores(df) on the object df: [status, objs, ref]; ref names the
\* returned object when status = "ok".
calculate_scores_call(self, objs, df) ==
    IF validate_structure(FrameValue(objs, df)) # "ok"
    THEN [status |-> "RiskMatrixValidationError", objs |-> objs, ref |-> 0]
    ELSE
      LET copied == frame_copy(objs, df)
          scored == copied.ref
          p == [i \in 1..objs.frames[df].n |->
                  to_numeric(FrameValue(copied.objs, scored).rows[i][PROBABILITY_COLUMN])]
          o1 == frame_setitem(copied.objs, scored, PROBABILITY_COLUMN, p)
          q == [i \in 1..objs.frames[df].n |->
                  to_numeric(FrameValue(o1, scored).rows[i][IMPACT_COLUMN])]
          o2 == frame_setitem(o1, scored, IMPACT_COLUMN, q)
      IN  IF \E i \in DOMAIN p : p[i].t = "nan" \/ q[i].t = "nan"
          THEN [status |-> "RiskMatrixValidationError", objs |-> o2, ref |-> 0]
          ELSE IF \E i \in DOMAIN p : ~in_range(p[i]) \/ ~in_range(q[i])
          THEN [status |-> "RiskMatrixValidationError", objs |-> o2, ref |-> 0]
          ELSE
            LET result == score_columns(self, FrameValue(o2, scored))
                o3 == frame_setitem(o2, scored, SCORE_COLUMN, ColumnOf(result, SCORE_COLUMN))
                o4 == frame_setitem(o3, scored, LEVEL_COLUMN, ColumnOf(result, LEVEL_COLUMN))
            IN  [status |-> "ok", objs |-> o4, ref |-> scored]

\* for column in sanitized.columns: ..., from column j on.
RECURSIVE sanitize_columns(_, _, _)
sanitize_columns(objs, sanitized, j) ==
    LET columns == objs.frames[sanitized].columns
    IN  IF j > Len(columns) THEN objs
        ELSE LET value == FrameValue(objs, sanitized)
                 column == columns[j]
             IN  sanitize_columns(
                     IF is_object_dtype(value, column)
                     THEN frame_setitem(objs, sanitized, column,
                              [i \in DOMAIN value.rows |->
                                  sanitize_value(value.rows[i][column])])
                     ELSE objs,
                     sanitized, j + 1)

\* _sanitize_dataframe(df) on the object df: [objs, ref].
sanitize_dataframe_call(objs, df) ==
    LET copied == frame_copy(objs, df)
    IN  [objs |-> sanitize_columns(copied.objs, copied.ref, 1), ref |-> copied.ref]

\* export_csv(df, path, overwrite) on the object df: [status, fs, objs].
export_csv_call(objs, df, files, overwrite, io) ==
    LET r == export_csv(files, FrameValue(objs, df), overwrite, io)
    IN  [status |-> r.status,
         fs |-> r.fs,
         objs |-> IF files.dir /\ ~overwrite_refused(files, overwrite)
                  THEN sanitize_dataframe_call(objs, df).objs
                  ELSE objs]

\* _dataframe_from_input(risks) on the DataFrame object risks: [status, objs, ref].
dataframe_from_input_call(objs, risks) ==
    IF IsEmptyFrame(FrameValue(objs, risks))
    THEN [status |-> "RiskInputValidationError", objs |-> objs, ref |-> 0]
    ELSE
      LET copied == frame_copy(objs, risks)
          value == FrameValue(copied.objs, copied.ref)
      IN  IF ~HasColumn(value, "Asset") \/ ~HasColumn(value, "Threat")
          THEN [status |-> "RiskInputValidationError", objs |-> copied.objs, ref |-> 0]
          ELSE IF HasColumn(value, "RiskLevel")
          THEN [status |-> "ok",
                objs |-> frame_setitem(copied.objs, copied.ref, "RiskLevel",
                            [i \in DOMAIN value.rows |->
                                normalize_risk_level(
                                    StrCell(PyStr(value.rows[i]["RiskLevel"])))]),
                ref |-> copied.ref]
          ELSE [status |-> "ok", objs |-> copied.objs, ref |-> copied.ref]

\* map_risks_to_controls(risks) on the DataFrame object risks: the objects
\* left and the returned dictionary.
map_risks_to_controls_call(self, objs, risks) ==
    [objs |-> dataframe_from_input_call(objs, risks).objs,
     out |-> map_risks_to_controls(self, DataFrameInput(FrameValue(objs, risks)))]

\* generate_gap_analysis(risks, implemented_controls) on the object risks.
generate_gap_analysis_call(self, objs, risks, implemented_controls) ==
    [objs |-> map_risks_to_controls_call(self, objs, risks).objs,
     out |-> generate_gap_analysis(self, DataFrameInput(FrameValue(objs, risks)),
                                   implemented_controls)]

\* Tables a caller holds as objects.
CallerScoreTables == EngineTables

CallerExportTables == ExportTables \cup UnloadedTables

CallerRiskTables ==
    GapRiskTables \cup LevelTables
    \cup {r.df : r \in {b \in BadRiskInputs : b.kind = "DataFrame"}}

-----------------------------------------------------------------------------
(* The Excel converter and the standalone validator *)

\* RISK_THRESHOLDS: level -> (lowest score, highest score).
RISK_THRESHOLDS ==
    [low |-> <<1, 6>>, medium |-> <<7, 12>>, high |-> <<13, 14>>, critical |-> <<15, 25>>]

\* REQUIRED_RISK_COLUMNS
REQUIRED_RISK_COLUMNS ==
    <<"ID", "Asset", "Threat", "Vulnerability", "Probability", "Impact", "Risk",
      "Decision", "Recommendation">>

\* The if/elif chain of apply_risk_coloring: the key into RISK_COLORS.
color_key(risk_value) ==
    IF risk_value <= 6 THEN "low"
    ELSE IF risk_value <= 12 THEN "medium"
    ELSE IF risk_value <= 14 THEN "high"
    ELSE "critical"

\* apply_risk_coloring: the colour key of the Risk cell of each row; nothing
\* is coloured when the table has no Risk column.
apply_risk_coloring(df) ==
    IF ~HasColumn(df, "Risk") THEN <<>>
    ELSE [i \in DOMAIN df.rows |-> color_key(astype_int(df.rows[i]["Risk"]))]

\* The if/elif chain of create_heatmap: the key of the colour of cell (p, i).
heatmap_color_key(risk) ==
    IF risk <= 6 THEN "low"
    ELSE IF risk <= 12 THEN "medium"
    ELSE IF risk <= 14 THEN "high"
    ELSE "critical"

\* create_heatmap: for each (p, i) in 1..5 x 1..5 the number of rows with
\* that Probability and Impact, and the colour key of the cell.
create_heatmap(df) ==
    [pi \in (1..5) \X (1..5) |->
        [count |-> Cardinality({n \in DOMAIN df.rows :
                                   /\ astype_int(df.rows[n]["Probability"]) = pi[1]
                                   /\ astype_int(df.rows[n]["Impact"]) = pi[2]}),
         color |-> heatmap_color_key(pi[1] * pi[2])]]

\* Series.between(1, 5) of one value: False for NaN.
between_1_5(c) == c.t = "num" /\ c.h >= 2 * 1 /\ c.h <= 2 * 5

\* df["Risk"] == expected_risk, for one row.
risk_matches(row) ==
    /\ row["Risk"].t = "num"
    /\ 2 * row["Risk"].h = row["Probability"].h * row["Impact"].h

\* validate_risk_scores on a table: [status, warned]; status is "ok" or the
\* error raised, warned tells whether the warning was printed.
validate_risk_scores(df) ==
    LET raised(e) == [status |-> e, warned |-> FALSE]
    IN  IF ~HasColumn(df, "Probability") THEN raised("KeyError")
        ELSE IF ~is_numeric_dtype(df, "Probability") THEN raised("ValueError")
        ELSE IF \E n \in DOMAIN df.rows : ~between_1_5(df.rows[n]["Probability"])
        THEN raised("ValueError")
        ELSE IF ~HasColumn(df, "Impact") THEN raised("KeyError")
        ELSE IF ~is_numeric_dtype(df, "Impact") THEN raised("ValueError")
        ELSE IF \E n \in DOMAIN df.rows : ~between_1_5(df.rows[n]["Impact"])
        THEN raised("ValueError")
        ELSE IF ~HasColumn(df, "Risk") THEN raised("KeyError")
        ELSE [status |-> "ok",
              warned |-> \E n \in DOMAIN df.rows : ~risk_matches(df.rows[n])]

validate_risk_scores_recalculating(objs, df) ==
    LET r == validate_risk_scores(FrameValue(objs, df))
        value == FrameValue(objs, df)
    IN  [status |-> r.status, warned |-> r.warned,
         objs |-> IF r.warned
                  THEN frame_setitem(objs, df, "Risk",
                          [n \in DOMAIN value.rows |->
                              NumCell((value.rows[n]["Probability"].h
                                         * value.rows[n]["Impact"].h) \div 2)])
                  ELSE objs]

\* validate_risk_scores(df) on the DataFrame object df: it reads df["..."]
\* and assigns nothing.
validate_risk_scores_call(objs, df) ==
    LET r == validate_risk_scores(FrameValue(objs, df))
    IN  [status |-> r.status, warned |-> r.warned, objs |-> objs]

\* The demo dataset load_csv returns when the file is absent.
demo_data ==
    [columns |-> REQUIRED_RISK_COLUMNS,
     rows |-> <<[c \in Range(REQUIRED_RISK_COLUMNS) |->
                   CASE c = "Probability" -> IntCell(4)
                     [] c = "Impact" -> IntCell(5)
                     [] c = "Risk" -> IntCell(20)
                     [] OTHER -> StrCell(<<"d", "e", "m", "o">>)],
                [c \in Range(REQUIRED_RISK_COLUMNS) |->
                   CASE c = "Probability" -> IntCell(3)
                     [] c = "Impact" -> IntCell(4)
                     [] c = "Risk" -> IntCell(12)
                     [] OTHER -> StrCell(<<"d", "e", "m", "o">>)]>>]

\* pd.read_csv(csv_path, dtype=dtype_spec) raises ValueError when a cell of
\* Probability, Impact or Risk is not an integer.
int64_columns_ok(df) ==
    \A c \in {"Probability", "Impact", "Risk"} \cap Range(df.columns) :
        \A n \in DOMAIN df.rows : df.rows[n][c].t = "num" /\ df.rows[n][c].h % 2 = 0

\* The converter's load_csv: [status, read, warned, objs, ref]; status is "ok"
\* or "SystemExit" (every error ends in sys.exit(1)), read the table as
\* pd.read_csv returned it, ref the returned DataFrame object.
converter_load_csv(file) ==
    LET exit == [status |-> "SystemExit", read |-> <<>>, warned |-> FALSE,
                 objs |-> NoObjects, ref |-> 0]
    IN  IF ~file.exists
        THEN LET demo == NewFrame(NoObjects, demo_data)
             IN  [status |-> "ok", read |-> demo_data, warned |-> FALSE,
                  objs |-> demo.objs, ref |-> demo.ref]
        ELSE IF file.kind = "no_metadata" \/ file.size > MAX_FILE_SIZE_BYTES THEN exit
        ELSE IF read_csv(file).status # "ok" THEN exit
        ELSE IF ~int64_columns_ok(read_csv(file).df) THEN exit
        ELSE
          LET read == read_csv(file).df
              df == NewFrame(NoObjects, read)
              checked == validate_risk_scores_call(df.objs, df.ref)
              value == FrameValue(checked.objs, df.ref)
          IN  IF Range(REQUIRED_RISK_COLUMNS) \ Range(read.columns) # {} THEN exit
              ELSE IF checked.status # "ok" THEN exit
              ELSE [status |-> "ok", read |-> read, warned |-> checked.warned,
                    objs |-> frame_setitem(checked.objs, df.ref, "Risk",
                                [n \in DOMAIN value.rows |->
                                    NumCell((value.rows[n]["Probability"].h
                                               * value.rows[n]["Impact"].h) \div 2)]),
                    ref |-> df.ref]

\* Rows of a risk matrix as the converter reads it: Probability, Impact and
\* Risk vary, the text columns are fixed.
MaxMatrixRows == 2

MatrixScores ==
    {<<IntCell(p), IntCell(i), IntCell(p * i)>> : p \in 1..5, i \in 1..5}
    \cup {<<IntCell(3), IntCell(4), IntCell(99)>>,
          <<IntCell(5), IntCell(1), IntCell(6)>>,
          <<IntCell(2), IntCell(2), NaN>>,
          <<IntCell(2), IntCell(2), StrCell(<<"x">>)>>,
          <<IntCell(0), IntCell(3), IntCell(0)>>,
          <<IntCell(6), IntCell(5), IntCell(30)>>,
          <<IntCell(3), IntCell(6), IntCell(18)>>,
          <<IntCell(3), IntCell(-1), IntCell(-3)>>,
          <<NumCell(5), IntCell(2), IntCell(5)>>,
          <<NumCell(5), IntCell(2), IntCell(4)>>,
          <<StrCell(<<"3">>), IntCell(4), IntCell(12)>>,
          <<IntCell(3), StrCell(<<"h", "i", "g", "h">>), IntCell(3)>>,
          <<NaN, IntCell(2), IntCell(2)>>,
          <<IntCell(1), NaN, IntCell(1)>>}

\* The scores of the tables of more than one row.
MultiRowScores ==
    {<<IntCell(1), IntCell(1), IntCell(1)>>,
     <<IntCell(3), IntCell(5), IntCell(15)>>,
     <<IntCell(3), IntCell(4), IntCell(99)>>,
     <<IntCell(6), IntCell(5), IntCell(30)>>,
     <<IntCell(2), IntCell(2), StrCell(<<"x">>)>>}

MatrixColumnChoices ==
    {REQUIRED_RISK_COLUMNS,
     <<"Probability", "Impact", "Risk">>,
     <<"ID", "Asset", "Threat", "Vulnerability", "Probability", "Impact", "Decision",
       "Recommendation">>,
     <<"ID", "Asset", "Threat", "Vulnerability", "Probability", "Impact", "Risk",
       "Recommendation">>}

MatrixRow(columns, s) ==
    [c \in Range(columns) |->
        CASE c = "Probability" -> s[1]
          [] c = "Impact" -> s[2]
          [] c = "Risk" -> s[3]
          [] c = "Asset" -> StrCell(<<"=", "P", "u", "m", "p">>)
          [] OTHER -> StrCell(<<"t">>)]

\* Tables held in memory and handed to validate_risk_scores.
MatrixTables ==
    {[columns |-> columns, rows |-> [n \in DOMAIN ss |-> MatrixRow(columns, ss[n])]] :
        columns \in MatrixColumnChoices,
        ss \in [1..1 -> MatrixScores]
               \cup UNION {[1..n -> MultiRowScores] : n \in 2..MaxMatrixRows}}

\* Files handed to the converter's load_csv: the tables written out, a
\* missing file, a file over the size limit and files that cannot be read.
MatrixFiles ==
    {MissingFile}
    \cup {CsvFile("csv", 1024, to_csv(t)) : t \in MatrixTables}
    \cup {CsvFile("csv", MAX_FILE_SIZE_BYTES + 1, to_csv(t)) :
             t \in {u \in MatrixTables : Len(u.rows) = 1 /\ u.columns = REQUIRED_RISK_COLUMNS}}
    \cup {CsvFile(kind, 1024, <<REQUIRED_RISK_COLUMNS>>) :
             kind \in {"no_metadata", "unreadable", "undecodable", "malformed"}}
    \cup {CsvFile("csv", 0, <<>>)}

\* Tables handed to apply_risk_coloring and create_heatmap by
\* convert_csv_to_xlsx: what the converter's load_csv returned.
LoadedMatrices ==
    {FrameValue(r.objs, r.ref) :
        r \in {s \in {converter_load_csv(f) : f \in MatrixFiles} : s.status = "ok"}}

-----------------------------------------------------------------------------
(* LinkValidator.validate_file_path *)

\* The characters of a path component.
Chars(n) ==
    CASE
         n = "repo" -> <<"r", "e", "p", "o">>
      [] n = "samples" -> <<"s", "a", "m", "p", "l", "e", "s">>
      [] n = "samples-old" -> <<"s", "a", "m", "p", "l", "e", "s", "-", "o", "l", "d">>
      [] n = "docs" -> <<"d", "o", "c", "s">>
      [] n = "compliance" -> <<"c", "o", "m", "p", "l", "i", "a", "n", "c", "e">>
      [] n = "compliance-drafts" -> <<"c", "o", "m", "p", "l", "i", "a", "n", "c", "e", "-", "d", "r", "a", "f", "t", "s">>
      [] n = "src" -> <<"s", "r", "c">>
      [] n = "etc" -> <<"e", "t", "c">>
      [] n = "a.md" -> <<"a", ".", "m", "d">>
      [] n = "samples.md" -> <<"s", "a", "m", "p", "l", "e", "s", ".", "m", "d">>
      [] n = "link" -> <<"l", "i", "n", "k">>
      [] n = ".." -> <<".", ".">>
      [] n = "architecture" -> <<"a", "r", "c", "h", "i", "t", "e", "c", "t", "u", "r", "e">>
      [] n = "cces" -> <<"c", "c", "e", "s">>
      [] n = "05-Business-Processes" -> <<"0", "5", "-", "B", "u", "s", "i", "n", "e", "s", "s", "-", "P", "r", "o", "c", "e", "s", "s", "e", "s">>
      [] n = "02-Matrices" -> <<"0", "2", "-", "M", "a", "t", "r", "i", "c", "e", "s">>

\* str(path) of a relative path: its components joined by "/"; the empty
\* relative path is ".".
RECURSIVE JoinParts(_)
JoinParts(parts) ==
    IF parts = <<>> THEN <<>>
    ELSE IF Len(parts) = 1 THEN Chars(parts[1])
    ELSE Chars(parts[1]) \o <<"/">> \o JoinParts(Tail(parts))

PathStr(parts) == IF parts = <<>> THEN <<".">> ELSE JoinParts(parts)

\* ALLOWED_DIRS, as the strings of the constant.
ALLOWED_DIRS ==
    {JoinParts(<<"docs", "compliance">>),
     JoinParts(<<"docs", "architecture">>),
     JoinParts(<<"docs", "cces">>),
     Chars("05-Business-Processes"),
     Chars("02-Matrices"),
     Chars("samples")}

\* str.startswith
startswith(s, prefix) ==
    Len(prefix) <= Len(s) /\ SubSeq(s, 1, Len(prefix)) = prefix

\* The file system validate_file_path looks at.  Paths are absolute, written
\* as their components below "/".  project_root is /repo.
project_root == <<"repo">>

Directories ==
    {<<>>, <<"repo">>, <<"etc">>,
     <<"repo", "samples">>, <<"repo", "samples-old">>, <<"repo", "src">>,
     <<"repo", "docs">>, <<"repo", "docs", "compliance">>,
     <<"repo", "docs", "compliance-drafts">>}

Files ==
    {<<"etc", "a.md">>, <<"repo", "a.md">>, <<"repo", "samples.md">>,
     <<"repo", "samples", "a.md">>, <<"repo", "samples-old", "a.md">>,
     <<"repo", "src", "a.md">>, <<"repo", "docs", "a.md">>,
     <<"repo", "docs", "compliance", "a.md">>,
     <<"repo", "docs", "compliance-drafts", "a.md">>}

\* Symbolic links: path -> target.
Symlinks ==
    [p \in {<<"repo", "samples", "link">>, <<"repo", "src", "link">>} |->
        IF p = <<"repo", "samples", "link">> THEN <<"etc", "a.md">>
        ELSE <<"repo", "samples", "a.md">>]

\* Path.resolve(): the components are walked from `at`; ".." goes to the
\* parent, a symbolic link is replaced by its target, a component that does
\* not exist is kept.
RECURSIVE resolve(_, _)
resolve(at, parts) ==
    IF parts = <<>> THEN at
    ELSE IF Head(parts) = ".."
    THEN resolve(IF at = <<>> THEN <<>> ELSE SubSeq(at, 1, Len(at) - 1), Tail(parts))
    ELSE LET next == Append(at, Head(parts))
         IN  resolve(IF next \in DOMAIN Symlinks THEN Symlinks[next] ELSE next, Tail(parts))

\* project_root in resolved_path.parents
in_parents(root, path) ==
    Len(root) < Len(path) /\ SubSeq(path, 1, Len(root)) = root

NoPath == <<"no path">>

\* validate_file_path(file_path): [status, path]; status is "ok" or the
\* error raised, path the returned Path.
validate_file_path(file_path) ==
    LET raised(e) == [status |-> e, path |-> NoPath]
        resolved_path == IF file_path.absolute THEN resolve(<<>>, file_path.parts)
                         ELSE resolve(project_root, file_path.parts)
        relative_path == SubSeq(resolved_path, Len(project_root) + 1, Len(resolved_path))
    IN  IF ~in_parents(project_root, resolved_path) /\ resolved_path # project_root
        THEN raised("ValueError")
        ELSE IF ~\E allowed_dir \in ALLOWED_DIRS : startswith(PathStr(relative_path), allowed_dir)
        THEN raised("ValueError")
        ELSE IF resolved_path \notin Files \cup Directories THEN raised("FileNotFoundError")
        ELSE IF resolved_path \notin Files THEN raised("ValueError")
        ELSE [status |-> "ok", path |-> resolved_path]

\* The paths handed to validate_file_path: relative or absolute, of up to
\* MaxPathLen components.
MaxPathLen == 3

PathNames ==
    {"repo", "samples", "samples-old", "docs", "compliance", "compliance-drafts",
     "src", "etc", "a.md", "samples.md", "link", ".."}

FilePaths ==
    {[absolute |-> a, parts |-> p] :
        a \in BOOLEAN, p \in UNION {[1..n -> PathNames] : n \in 1..MaxPathLen}}

-----------------------------------------------------------------------------
(* The operations as actions.  Each behaviour is one call on a fresh       *)
(* engine or mapper: eng and mapper record the call, how the object was     *)
(* constructed, the input and the result.                                  *)

EngIdle == [op |-> "none"]

MapperIdle == [op |-> "none"]

LevelForScore ==
    /\ eng = EngIdle
    /\ \E thr \in ThresholdChoices, score \in ScoreRange :
          eng' = [op |-> "level_for_score", self |-> thr, score |-> score,
                  out |-> level_for_score(thr, score)]
    /\ UNCHANGED <<mapper, fs, exports>>

CalculateScores ==
    /\ eng = EngIdle
    /\ \E thr \in ThresholdChoices, df \in EngineTables :
          eng' = [op |-> "calculate_scores", self |-> thr, df |-> df,
                  out |-> calculate_scores(thr, df)]
    /\ UNCHANGED <<mapper, fs, exports>>

ClassifyDomain ==
    /\ mapper = MapperIdle
    /\ \E asset \in ClassifyPhrases, threat \in ClassifyPhrases, level \in ClassifyLevels :
          mapper' = [op |-> "classify_domain", asset |-> asset, threat |-> threat,
                     risk_level |-> level,
                     out |-> classify_domain(asset, threat, level)]
    /\ UNCHANGED <<eng, fs, exports>>

MapRisksToControls ==
    /\ mapper = MapperIdle
    /\ \E m \in MappingNames, risks \in RiskInputs :
          mapper' = [op |-> "map_risks_to_controls", mappings |-> m, risks |-> risks,
                     out |-> map_risks_to_controls(domain_mappings(m), risks)]
    /\ UNCHANGED <<eng, fs, exports>>

GenerateGapAnalysis ==
    /\ mapper = MapperIdle
    /\ \E m \in MappingNames, n \in ImplementedNames :
          LET self == domain_mappings(m)
              implemented == ImplementedChoice(n, self)
          IN  \E risks \in GapRiskInputs :
                 mapper' = [op |-> "generate_gap_analysis", mappings |-> m,
                            risks |-> risks, implemented |-> n,
                            out |-> generate_gap_analysis(self, risks, implemented)]
    /\ UNCHANGED <<eng, fs, exports>>

\* export_csv, called by one caller at a time on one destination; exports
\* is the history of the calls made: the table, the overwrite flag, how the
\* writing ended, the file system before and after, and the result.
ExportCsv ==
    /\ Len(exports) < MaxCalls
    /\ \E df \in ExportTables, overwrite \in BOOLEAN :
          \E io \in IoOutcomes(to_csv(sanitize_dataframe(df))) :
             LET r == export_csv(fs, df, overwrite, io)
             IN  /\ fs' = r.fs
                 /\ exports' = Append(exports,
                        [df |-> df, overwrite |-> overwrite, io |-> io,
                         before |-> fs, after |-> r.fs, out |-> r.status])
    /\ UNCHANGED <<eng, mapper>>

\* load_csv on one file.
LoadCsv ==
    /\ eng = EngIdle
    /\ exports = <<>>
    /\ \E file \in LoadFiles :
          eng' = [op |-> "load_csv", file |-> file, out |-> load_csv(file)]
    /\ UNCHANGED <<mapper, fs, exports>>

\* df = load_csv(path) followed by calculate_scores(df), on a file that loads
\* into a table whose labels do not repeat.
LoadThenCalculateScores ==
    /\ eng = EngIdle
    /\ exports = <<>>
    /\ \E file \in LoadFiles :
          LET loaded == load_csv(file)
          IN  /\ loaded.status = "ok"
              /\ Distinct(loaded.frame.labels)
              /\ eng' = [op |-> "load_then_calculate_scores", file |-> file,
                         loaded |-> loaded,
                         out |-> calculate_scores(DefaultThresholds,
                                                  frame_table(loaded.frame))]
    /\ UNCHANGED <<mapper, fs, exports>>

\* The two cell sanitisers applied to one value: _sanitize_value once and
\* twice, and _sanitize_text on the same text once and twice.
SanitizeValue ==
    /\ eng = EngIdle
    /\ exports = <<>>
    /\ \E value \in SanitizeValues :
          eng' = [op |-> "sanitize_value", value |-> value,
                  out |-> sanitize_value(value),
                  again |-> sanitize_value(sanitize_value(value)),
                  text |-> IF value.t = "str" THEN sanitize_text(value.s) ELSE <<>>,
                  text_again |-> IF value.t = "str"
                                 THEN sanitize_text(sanitize_text(value.s))
                                 ELSE <<>>]
    /\ UNCHANGED <<mapper, fs, exports>>

\* _normalise_columns on a table with the given header.
NormaliseColumns ==
    /\ eng = EngIdle
    /\ exports = <<>>
    /\ \E header \in HeaderChoices :
          eng' = [op |-> "normalise_columns", columns |-> header,
                  out |-> normalise_columns(HeaderTable(header))]
    /\ UNCHANGED <<mapper, fs, exports>>

\* One export_csv call, of a table that was never loaded.
ExportUnloaded ==
    /\ eng = EngIdle
    /\ exports = <<>>
    /\ \E df \in UnloadedTables, overwrite \in BOOLEAN :
          \E io \in IoOutcomes(to_csv(sanitize_dataframe(df))) :
             LET r == export_csv(fs, df, overwrite, io)
             IN  /\ fs' = r.fs
                 /\ exports' = <<[df |-> df, overwrite |-> overwrite, io |-> io,
                                  before |-> fs, after |-> r.fs, out |-> r.status]>>
    /\ UNCHANGED <<eng, mapper>>

\* calculate_scores on a table the caller holds as an object.
CalculateScoresCall ==
    /\ eng = EngIdle
    /\ mapper = MapperIdle
    /\ exports = <<>>
    /\ \E table \in CallerScoreTables :
          LET caller == NewFrame(NoObjects, table)
              r == calculate_scores_call(DefaultThresholds, caller.objs, caller.ref)
          IN  eng' = [op |-> "calculate_scores_call", df |-> caller.ref,
                      before |-> caller.objs, after |-> r.objs,
                      status |-> r.status, ref |-> r.ref]
    /\ UNCHANGED <<mapper, fs, exports>>

\* export_csv of a table the caller holds as an object.
ExportCsvCall ==
    /\ eng = EngIdle
    /\ mapper = MapperIdle
    /\ exports = <<>>
    /\ \E table \in CallerExportTables, overwrite \in BOOLEAN :
          \E io \in IoOutcomes(to_csv(sanitize_dataframe(table))) :
             LET caller == NewFrame(NoObjects, table)
                 r == export_csv_call(caller.objs, caller.ref, fs, overwrite, io)
             IN  /\ fs' = r.fs
                 /\ eng' = [op |-> "export_csv_call", df |-> caller.ref,
                            before |-> caller.objs, after |-> r.objs,
                            status |-> r.status, ref |-> 0]
    /\ UNCHANGED <<mapper, exports>>

\* map_risks_to_controls on a table the caller holds as an object.
MapRisksToControlsCall ==
    /\ eng = EngIdle
    /\ mapper = MapperIdle
    /\ exports = <<>>
    /\ \E table \in CallerRiskTables :
          LET caller == NewFrame(NoObjects, table)
              r == map_risks_to_controls_call(default_domain_mappings, caller.objs, caller.ref)
          IN  mapper' = [op |-> "map_risks_to_controls_call", df |-> caller.ref,
                         before |-> caller.objs, after |-> r.objs,
                         status |-> r.out.status, out |-> r.out]
    /\ UNCHANGED <<eng, fs, exports>>

\* generate_gap_analysis on a table the caller holds as an object.
GenerateGapAnalysisCall ==
    /\ eng = EngIdle
    /\ mapper = MapperIdle
    /\ exports = <<>>
    /\ \E table \in CallerRiskTables, n \in {"none", "mixed"} :
          LET caller == NewFrame(NoObjects, table)
              r == generate_gap_analysis_call(default_domain_mappings, caller.objs, caller.ref,
                       ImplementedChoice(n, default_domain_mappings))
          IN  mapper' = [op |-> "generate_gap_analysis_call", df |-> caller.ref,
                         before |-> caller.objs, after |-> r.objs,
                         status |-> r.out.status, out |-> r.out]
    /\ UNCHANGED <<eng, fs, exports>>

\* The round trip of one file through load_csv, calculate_scores and
\* export_csv, and of the exported file through load_csv and calculate_scores.
RoundTrip ==
    /\ eng = EngIdle
    /\ exports = <<>>
    /\ \E file \in LoadFiles :
          \E loaded \in {load_csv(file)} :
          \E scored \in {scored_after(loaded)} :
          \E exported \in {exported_after(loaded, scored, fs)} :
          \E back \in {read_back(exported)}, reloaded \in {reloaded_after(exported)} :
          \E rescored \in {scored_after(reloaded)} :
              /\ eng' = [op |-> "round_trip", file |-> file,
                         out |-> [loaded |-> loaded, scored |-> scored,
                                  exported |-> exported.status, fs |-> exported.fs,
                                  back |-> back, reloaded |-> reloaded,
                                  rescored |-> rescored]]
              /\ fs' = exported.fs
    /\ UNCHANGED <<mapper, exports>>

\* export_csv as the steps one call takes, for calls that run side by side
\* on one destination.  A call is idle, then has its arguments ("check"),
\* then has passed the existence test ("write"), then is "done".
MaxWriters == 2

Writers == 1..MaxWriters

IdleCall == [pc |-> "idle"]

\* The calls start: each with a table and an overwrite flag.
ExportStart(w) ==
    /\ eng.op = "export_csv_steps"
    /\ eng.calls[w].pc = "idle"
    /\ \E df \in ExportTables, overwrite \in BOOLEAN :
          eng' = [eng EXCEPT !.calls[w] =
                     [pc |-> "check", df |-> df, overwrite |-> overwrite]]
    /\ UNCHANGED <<mapper, fs, exports>>

\* resolved_parent.exists(), then resolved_output.exists() and not overwrite:
\* the call raises, or goes on to write.
ExportCheck(w) ==
    /\ eng.op = "export_csv_steps"
    /\ eng.calls[w].pc = "check"
    /\ LET call == eng.calls[w]
       IN  IF ~fs.dir \/ overwrite_refused(fs, call.overwrite)
           THEN /\ eng' = [eng EXCEPT !.calls[w] =
                              [call EXCEPT !.pc = "done"]]
                /\ exports' = Append(exports,
                       [writer |-> w, df |-> call.df, overwrite |-> call.overwrite,
                        checked |-> fs, before |-> fs, after |-> fs,
                        out |-> "RiskAssessmentError"])
           ELSE /\ eng' = [eng EXCEPT !.calls[w] =
                              [pc |-> "write", df |-> call.df,
                               overwrite |-> call.overwrite, checked |-> fs]]
                /\ UNCHANGED exports
    /\ UNCHANGED <<mapper, fs>>

\* sanitized.to_csv(resolved_output, ...): the file is opened for writing,
\* which replaces what it holds, and the lines are written.
ExportWrite(w) ==
    /\ eng.op = "export_csv_steps"
    /\ eng.calls[w].pc = "write"
    /\ LET call == eng.calls[w]
           written == [fs EXCEPT !.file = FileWith(to_csv(sanitize_dataframe(call.df)))]
       IN  /\ fs' = written
           /\ eng' = [eng EXCEPT !.calls[w] = [call EXCEPT !.pc = "done"]]
           /\ exports' = Append(exports,
                  [writer |-> w, df |-> call.df, overwrite |-> call.overwrite,
                   checked |-> call.checked, before |-> fs, after |-> written,
                   out |-> "ok"])
    /\ UNCHANGED mapper

\* validate_risk_scores on a table the caller holds as an object.
ValidateRiskScores ==
    /\ eng = EngIdle
    /\ exports = <<>>
    /\ \E table \in MatrixTables :
          LET caller == NewFrame(NoObjects, table)
              r == validate_risk_scores_call(caller.objs, caller.ref)
          IN  eng' = [op |-> "validate_risk_scores", df |-> caller.ref,
                      before |-> caller.objs, after |-> r.objs,
                      status |-> r.status, warned |-> r.warned]
    /\ UNCHANGED <<mapper, fs, exports>>

\* The converter's load_csv on one file.
ConverterLoadCsv ==
    /\ eng = EngIdle
    /\ exports = <<>>
    /\ \E file \in MatrixFiles :
          eng' = [op |-> "converter_load_csv", file |-> file,
                  out |-> converter_load_csv(file)]
    /\ UNCHANGED <<mapper, fs, exports>>

\* apply_risk_coloring on a loaded matrix.
ApplyRiskColoring ==
    /\ eng = EngIdle
    /\ exports = <<>>
    /\ \E df \in LoadedMatrices :
          eng' = [op |-> "apply_risk_coloring", df |-> df,
                  out |-> apply_risk_coloring(df)]
    /\ UNCHANGED <<mapper, fs, exports>>

\* create_heatmap on a loaded matrix.
CreateHeatmap ==
    /\ eng = EngIdle
    /\ exports = <<>>
    /\ \E df \in LoadedMatrices :
          eng' = [op |-> "create_heatmap", df |-> df, out |-> create_heatmap(df)]
    /\ UNCHANGED <<mapper, fs, exports>>

\* validate_file_path on one path.
ValidateFilePath ==
    /\ eng = EngIdle
    /\ exports = <<>>
    /\ \E file_path \in FilePaths :
          eng' = [op |-> "validate_file_path", file_path |-> file_path,
                  out |-> validate_file_path(file_path)]
    /\ UNCHANGED <<mapper, fs, exports>>

Init ==
    /\ eng = EngIdle
    /\ mapper = MapperIdle
    /\ fs = [dir |-> TRUE, file |-> Absent]
    /\ exports = <<>>

InitExport ==
    /\ eng = EngIdle
    /\ mapper = MapperIdle
    /\ fs \in InitialFs
    /\ exports = <<>>

Next == LevelForScore \/ CalculateScores

Spec == Init /\ [][Next]_vars

NextMapper == ClassifyDomain \/ MapRisksToControls \/ GenerateGapAnalysis

SpecMapper == Init /\ [][NextMapper]_vars

NextExport == ExportCsv

SpecExport == InitExport /\ [][NextExport]_vars

NextLoad ==
    \/ LoadCsv
    \/ LoadThenCalculateScores
    \/ SanitizeValue
    \/ ExportUnloaded
    \/ NormaliseColumns

SpecLoad == Init /\ [][NextLoad]_vars

NextRoundTrip == RoundTrip

SpecRoundTrip == Init /\ [][NextRoundTrip]_vars

InitSteps ==
    /\ fs \in InitialFs
    /\ eng = [op |-> "export_csv_steps", start |-> fs,
              calls |-> [w \in Writers |-> IdleCall]]
    /\ mapper = MapperIdle
    /\ exports = <<>>

NextSteps == \E w \in Writers : ExportStart(w) \/ ExportCheck(w) \/ ExportWrite(w)

SpecSteps == InitSteps /\ [][NextSteps]_vars

NextConverter ==
    \/ ValidateRiskScores
    \/ ConverterLoadCsv
    \/ ApplyRiskColoring
    \/ CreateHeatmap

SpecConverter == Init /\ [][NextConverter]_vars

NextPaths == ValidateFilePath

SpecPaths == Init /\ [][NextPaths]_vars

NextCalls ==
    \/ CalculateScoresCall
    \/ ExportCsvCall
    \/ MapRisksToControlsCall
    \/ GenerateGapAnalysisCall

SpecCalls == InitExport /\ [][NextCalls]_vars

-----------------------------------------------------------------------------
(* Properties of the engine *)

\* The number a Probability or Impact cell stands for, in halves.
Halves(c) == to_numeric(c).h

IsInt1to5(c) == to_numeric(c).t = "num" /\ Halves(c) \in {2 * n : n \in 1..5}

LevelRank(level) ==
    CASE level = "low" -> 1
      [] level = "medium" -> 2
      [] level = "high" -> 3
      [] level = "critical" -> 4

\* C1: every table calculate_scores accepts, whose Probability and Impact are
\* integers in 1..5, comes back with the same rows, each holding
\* Risk = Probability * Impact in 1..25 and RiskLevel = level_for_score(Risk),
\* whatever Risk and RiskLevel columns the input already carried.
C1_RiskIsProduct ==
    (/\ eng.op = "calculate_scores"
     /\ eng.out.status = "ok"
     /\ \A i \in DOMAIN eng.df.rows :
           /\ IsInt1to5(eng.df.rows[i][PROBABILITY_COLUMN])
           /\ IsInt1to5(eng.df.rows[i][IMPACT_COLUMN]))
    => /\ DOMAIN eng.out.df.rows = DOMAIN eng.df.rows
       /\ HasColumn(eng.out.df, SCORE_COLUMN)
       /\ HasColumn(eng.out.df, LEVEL_COLUMN)
       /\ \A i \in DOMAIN eng.df.rows :
             LET p == Halves(eng.df.rows[i][PROBABILITY_COLUMN]) \div 2
                 q == Halves(eng.df.rows[i][IMPACT_COLUMN]) \div 2
                 row == eng.out.df.rows[i]
             IN  /\ row[SCORE_COLUMN] = IntCell(p * q)
                 /\ p * q \in 1..25
                 /\ row[LEVEL_COLUMN] = StrCell(LevelText[level_for_score(eng.self, p * q)])

\* C1 witness: a table that carried Risk = 99 and RiskLevel = low on a 4 x 5
\* row is returned with Risk = 20 and RiskLevel = critical.
C1_Witness ==
    /\ eng.op = "calculate_scores"
    /\ eng.self = DefaultThresholds
    /\ eng.out.status = "ok"
    /\ HasColumn(eng.df, SCORE_COLUMN)
    /\ HasColumn(eng.df, LEVEL_COLUMN)
    /\ eng.df.rows[1][PROBABILITY_COLUMN] = IntCell(4)
    /\ eng.df.rows[1][IMPACT_COLUMN] = IntCell(5)
    /\ eng.df.rows[1][SCORE_COLUMN] = IntCell(99)
    /\ eng.out.df.rows[1][SCORE_COLUMN] = IntCell(20)
    /\ eng.out.df.rows[1][LEVEL_COLUMN] = StrCell(LevelText["critical"])

\* C2: under the default thresholds (4, 9, 16) level_for_score gives low on
\* 0..4, medium on 5..9, high on 10..16 and critical from 17 on, the level
\* never decreases as the score grows, and a negative score raises instead
\* of returning a level.
C2_DefaultLevels ==
    (eng.op = "level_for_score" /\ eng.self = DefaultThresholds)
    => /\ eng.score < 0 => eng.out = "ValueError"
       /\ eng.score \in 0..4 => eng.out = "low"
       /\ eng.score \in 5..9 => eng.out = "medium"
       /\ eng.score \in 10..16 => eng.out = "high"
       /\ eng.score >= 17 => eng.out = "critical"
       /\ eng.score >= 0 =>
             \A below \in 0..eng.score :
                 LevelRank(level_for_score(eng.self, below)) <= LevelRank(eng.out)

\* C2 witness: the boundary score 17 classified as critical.
C2_Witness ==
    /\ eng.op = "level_for_score"
    /\ eng.self = DefaultThresholds
    /\ eng.score = 17
    /\ eng.out = "critical"

-----------------------------------------------------------------------------
(* Properties of the mapper *)

\* The table a mapper call works on, once its input is accepted.
InputFrame == dataframe_from_input(mapper.risks).df

InputAccepted == dataframe_from_input(mapper.risks).status = "ok"

RowDomain(df, i) == classify_domain(row_asset(df, i), row_threat(df, i), row_risk_level(df, i))

\* C3: for any caller-supplied table, every entry carries the controls the
\* table holds for the row's classified domain, the general entry serving
\* only when the table has none for that domain; a table that contains the
\* classified domain of every row always yields those controls.
C3_ControlsOfClassifiedDomain ==
    (mapper.op = "map_risks_to_controls" /\ InputAccepted)
    => LET self == domain_mappings(mapper.mappings)
           df == InputFrame
       IN  /\ (\A i \in DOMAIN df.rows : RowDomain(df, i) \in DOMAIN self)
                  => mapper.out.status = "ok"
           /\ mapper.out.status = "ok" =>
                 \A k \in DOMAIN mapper.out.entries :
                    LET e == mapper.out.entries[k]
                    IN  e.recommended_controls =
                           IF e.domain \in DOMAIN self THEN self[e.domain]
                           ELSE self["general"]

\* The table whose rows are the given scenarios (same asset, threat, level).
TableOfScenarios(items) ==
    [columns |-> <<"Asset", "Threat", "RiskLevel">>,
     rows |-> [i \in DOMAIN items |->
                 [Asset |-> items[i].asset, Threat |-> items[i].threat,
                  RiskLevel |-> items[i].risk_level]]]

\* C4: a non-empty sequence of RiskScenario records built from the rows of
\* a table is accepted and mapped to as many entries as the table itself.
C4_ScenariosMappedLikeTable ==
    (/\ mapper.op = "map_risks_to_controls"
     /\ mapper.risks.kind = "Sequence"
     /\ Len(mapper.risks.items) > 0
     /\ \A i \in DOMAIN mapper.risks.items : mapper.risks.items[i].cls = "RiskScenario")
    => LET self == domain_mappings(mapper.mappings)
           onTable == map_risks_to_controls(
                          self, DataFrameInput(TableOfScenarios(mapper.risks.items)))
       IN  onTable.status = "ok"
           => /\ mapper.out.status = "ok"
              /\ Cardinality(DOMAIN mapper.out.entries)
                    = Cardinality(DOMAIN onTable.entries)

RuleDomains ==
    <<"access_control", "network_security", "device_security",
      "data_protection", "logging_monitoring">>

RuleKeywords ==
    <<ACCESS_CONTROL_KEYWORDS, NETWORK_SECURITY_KEYWORDS, DEVICE_SECURITY_KEYWORDS,
      DATA_PROTECTION_KEYWORDS, LOGGING_MONITORING_KEYWORDS>>

MatchingRules(text) ==
    {r \in DOMAIN RuleKeywords : \E keyword \in RuleKeywords[r] : Contains(text, keyword)}

\* C5: the domain is that of the first rule, in the order access_control,
\* network_security, device_security, data_protection, logging_monitoring,
\* one of whose keywords occurs in the lower-cased text of asset and threat,
\* whatever later rules match and whatever the risk level is.
C5_FirstMatchWins ==
    mapper.op = "classify_domain"
    => LET text == lower(mapper.asset \o <<" ">> \o mapper.threat)
           matching == MatchingRules(text)
       IN  matching # {}
           => \E r \in matching :
                 /\ \A other \in matching : r <= other
                 /\ mapper.out = RuleDomains[r]

\* C5 witness: asset "network" with threat "password" matches the rules of
\* network_security and of access_control, and is classified access_control.
C5_Witness ==
    /\ mapper.op = "classify_domain"
    /\ mapper.asset = <<"n", "e", "t", "w", "o", "r", "k">>
    /\ mapper.threat = <<"p", "a", "s", "s", "w", "o", "r", "d">>
    /\ {1, 2} \subseteq MatchingRules(lower(mapper.asset \o <<" ">> \o mapper.threat))
    /\ mapper.out = "access_control"

\* C6: in every entry of a gap analysis and for each framework, implemented
\* and missing partition recommended: each recommended control is in
\* exactly one of them and neither holds anything else.
C6_GapPartition ==
    (mapper.op = "generate_gap_analysis" /\ mapper.out.status = "ok")
    => \A k \in DOMAIN mapper.out.entries, f \in Range(Frameworks) :
          LET rec == mapper.out.entries[k].recommended_controls[f]
              imp == mapper.out.entries[k].implemented_controls[f]
              mis == mapper.out.entries[k].missing_controls[f]
          IN  /\ Range(imp) \cap Range(mis) = {}
              /\ Range(imp) \cup Range(mis) = Range(rec)
              /\ Len(imp) + Len(mis) = Len(rec)

\* C6 witness: an entry with a framework whose recommended controls are
\* split, some implemented and some missing.
C6_Witness ==
    /\ mapper.op = "generate_gap_analysis"
    /\ mapper.out.status = "ok"
    /\ \E k \in DOMAIN mapper.out.entries, f \in Range(Frameworks) :
          /\ mapper.out.entries[k].implemented_controls[f] # <<>>
          /\ mapper.out.entries[k].missing_controls[f] # <<>>

\* The text before the first space.
BeforeFirstSpace(s) ==
    LET spaces == {i \in DOMAIN s : s[i] = " "}
    IN  IF spaces = {} THEN s
        ELSE SubSeq(s, 1, (CHOOSE i \in spaces : \A j \in spaces : i <= j) - 1)

\* The text without its leading and trailing spaces.
RECURSIVE Trimmed(_)
Trimmed(s) ==
    IF s = <<>> THEN s
    ELSE IF Head(s) = " " THEN Trimmed(Tail(s))
    ELSE IF s[Len(s)] = " " THEN Trimmed(SubSeq(s, 1, Len(s) - 1))
    ELSE s

\* The entries the caller listed as implemented under a framework.
Listed(f) ==
    LET given == ImplementedChoice(mapper.implemented, domain_mappings(mapper.mappings))
    IN  IF given.none \/ f \notin DOMAIN given.map THEN {}
        ELSE {Trimmed(raw) : raw \in Range(given.map[f])} \ {<<>>}

C8_OneEntryPerPair ==
    (mapper.op = "map_risks_to_controls" /\ mapper.out.status = "ok")
    => LET df == InputFrame
           pairs == {<<row_asset(df, i), row_threat(df, i)>> : i \in DOMAIN df.rows}
       IN  /\ Cardinality(DOMAIN mapper.out.entries) = Cardinality(pairs)
           /\ \A i, j \in DOMAIN df.rows :
                 risk_id(row_asset(df, i), row_threat(df, i))
                       = risk_id(row_asset(df, j), row_threat(df, j))
                 <=> /\ row_asset(df, i) = row_asset(df, j)
                     /\ row_threat(df, i) = row_threat(df, j)

-----------------------------------------------------------------------------
(* Properties of export_csv *)

\* C9: with the directory present and the writing free of I/O errors, a
\* call with overwrite=False on an absent destination succeeds and writes
\* the file; a call with overwrite=False that follows it fails with
\* RiskAssessmentError and leaves the file the first call wrote unchanged;
\* a call with overwrite=True succeeds whether or not the file exists.
C9_OverwriteFlag ==
    \A n \in DOMAIN exports :
       LET c == exports[n]
           written == FileWith(to_csv(sanitize_dataframe(c.df)))
       IN  c.before.dir =>
             /\ (~c.overwrite /\ ~c.before.file.exists /\ c.io = IoOk)
                   => (c.out = "ok" /\ c.after.file = written)
             /\ (n > 1 /\ ~c.overwrite /\ ~exports[n-1].overwrite
                   /\ exports[n-1].out = "ok")
                   => (c.out = "RiskAssessmentError"
                       /\ c.after.file = exports[n-1].after.file
                       /\ fs.file.exists)
             /\ (c.overwrite /\ c.io = IoOk)
                   => (c.out = "ok" /\ c.after.file = written)

\* The sequence of C9: a first export creates the file, a second without
\* overwrite and with another table is refused, a third with overwrite
\* replaces the file.
C9_Witness ==
    /\ Len(exports) = 3
    /\ ~exports[1].before.file.exists /\ exports[1].before.dir
    /\ ~exports[1].overwrite /\ exports[1].out = "ok"
    /\ ~exports[2].overwrite /\ exports[2].out = "RiskAssessmentError"
    /\ exports[2].df # exports[1].df
    /\ exports[2].after.file = exports[1].after.file
    /\ exports[3].overwrite /\ exports[3].out = "ok"
    /\ exports[3].df = exports[2].df
    /\ fs.file # exports[1].after.file

\* C10: a call that raises RiskAssessmentError leaves the destination as it
\* was: absent if it was absent, its content unchanged if it existed.
C10_FailureLeavesFileUntouched ==
    \A n \in DOMAIN exports :
       exports[n].out = "RiskAssessmentError"
          => exports[n].after.file = exports[n].before.file

-----------------------------------------------------------------------------
(* Properties of the scored table and of the thresholds *)

\* C16: in every table calculate_scores returns, each row's Probability and
\* Impact are integers in 1..5 and its Risk is the product of the
\* Probability and Impact stored in that same row.
C16_StoredProductIsRisk ==
    (eng.op = "calculate_scores" /\ eng.out.status = "ok")
    => \A i \in DOMAIN eng.out.df.rows :
          LET row == eng.out.df.rows[i]
          IN  /\ IsInt1to5(row[PROBABILITY_COLUMN])
              /\ IsInt1to5(row[IMPACT_COLUMN])
              /\ 2 * row[SCORE_COLUMN].h
                    = row[PROBABILITY_COLUMN].h * row[IMPACT_COLUMN].h

\* C17: the thresholds an engine classifies with are ordered,
\* low_max < medium_max < high_max.
C17_ThresholdsOrdered ==
    (\/ (eng.op = "level_for_score" /\ eng.out # "ValueError")
     \/ (eng.op = "calculate_scores" /\ eng.out.status = "ok"))
    => (eng.self.low_max < eng.self.medium_max
        /\ eng.self.medium_max < eng.self.high_max)

-----------------------------------------------------------------------------
(* Properties of load_csv *)

\* A file that load_csv gets to parse: it exists, its path resolves, its
\* size is within the limit and its bytes decode and tokenize.
Parsable(file) ==
    /\ file.exists
    /\ file.kind = "csv"
    /\ file.size <= MAX_FILE_SIZE_BYTES

C12_ThreeErrorKinds ==
    /\ eng.op = "load_csv"
          => /\ eng.out.status \in {"ok", "FileNotFoundError",
                                    "RiskMatrixValidationError", "RiskAssessmentError"}
             /\ (eng.out.status = "FileNotFoundError") = ~eng.file.exists
    /\ eng.op = "load_then_calculate_scores"
          => eng.out.status \in {"ok", "RiskMatrixValidationError"}
    /\ \A n \in DOMAIN exports : exports[n].out \in {"ok", "RiskAssessmentError"}

\* The header line of a file, and whether its names are the canonical ones.
Header(file) == file.data[1]

WrongNames(file) ==
    Range(Header(file)) \cap {ASSET_COLUMN, THREAT_COLUMN, PROBABILITY_COLUMN, IMPACT_COLUMN} = {}

AliasNames == <<"asset", "THREAT", "Likelihood", "Severity">>

\* The texts a data line carries under the column named `name`.
FieldsUnder(file, name) ==
    LET j == CHOOSE k \in DOMAIN Header(file) : Header(file)[k] = name
    IN  [i \in 1..(Len(file.data) - 1) |-> file.data[i + 1][j]]

AllNumbers(fields) == \A i \in DOMAIN fields : ParseNum(fields[i]).t = "num"

\* C13: the checks of load_csv come in a fixed order and the first that fails
\* decides: a missing path gives FileNotFoundError; an existing file above
\* the size limit gives the size error whatever it holds (also bytes that
\* would not decode or tokenize); parsing comes before the zero-rows check,
\* and the zero-rows check before validation, so a header-only file with
\* wrong names fails as 'no data'; validation sees the normalised names, so
\* a file whose header uses aliases and letter-case variants loads, under the
\* canonical labels.
C13_LoadOrder ==
    eng.op = "load_csv"
    => /\ ~eng.file.exists
            => (eng.out.status = "FileNotFoundError" /\ eng.out.stage = "resolve")
       /\ (/\ eng.file.exists
           /\ eng.file.kind \notin {"unresolvable", "no_metadata"}
           /\ eng.file.size > MAX_FILE_SIZE_BYTES)
            => (eng.out.status = "RiskAssessmentError" /\ eng.out.stage = "size")
       /\ (/\ eng.file.exists
           /\ eng.file.kind \in {"unreadable", "undecodable", "malformed"}
           /\ eng.file.size <= MAX_FILE_SIZE_BYTES)
            => eng.out.stage = "parse"
       /\ (Parsable(eng.file) /\ Len(eng.file.data) = 1)
            => (eng.out.status = "RiskMatrixValidationError" /\ eng.out.stage = "empty")
       /\ eng.out.stage = "validate" => (Parsable(eng.file) /\ Len(eng.file.data) > 1)
       /\ (/\ Parsable(eng.file)
           /\ Len(eng.file.data) > 1
           /\ Header(eng.file) = AliasNames
           /\ AllNumbers(FieldsUnder(eng.file, "Likelihood"))
           /\ AllNumbers(FieldsUnder(eng.file, "Severity")))
            => /\ eng.out.status = "ok"
               /\ eng.out.frame.labels
                     = <<ASSET_COLUMN, THREAT_COLUMN, PROBABILITY_COLUMN, IMPACT_COLUMN>>

\* C13 witness: a header-only file whose names are all wrong has failed at
\* the zero-rows check.
C13_Witness ==
    /\ eng.op = "load_csv"
    /\ Parsable(eng.file)
    /\ Len(eng.file.data) = 1
    /\ WrongNames(eng.file)
    /\ eng.out.stage = "empty"

\* C14: load_csv fails with a validation error when a required column is
\* absent after normalisation or a Probability or Impact value does not
\* coerce to a number, so every Probability and Impact value of a table it
\* returns coerces to a non-null number.
C14_LoadedValuesAreNumbers ==
    (eng.op = "load_csv" /\ eng.out.status = "ok" /\ Distinct(eng.out.frame.labels))
    => LET df == frame_table(eng.out.frame)
       IN  \A i \in DOMAIN df.rows :
              /\ to_numeric(df.rows[i][PROBABILITY_COLUMN]).t = "num"
              /\ to_numeric(df.rows[i][IMPACT_COLUMN]).t = "num"


\* A parsable file with the canonical header whose Probability and Impact
\* fields are all numbers, in range or not.
StructurallyValid(file) ==
    /\ Parsable(file)
    /\ Len(file.data) > 1
    /\ Header(file) = <<ASSET_COLUMN, THREAT_COLUMN, PROBABILITY_COLUMN, IMPACT_COLUMN>>
    /\ AllNumbers(FieldsUnder(file, PROBABILITY_COLUMN))
    /\ AllNumbers(FieldsUnder(file, IMPACT_COLUMN))

\* A Probability or Impact cell that is null or outside the closed range [1,5].
NullOrOutOfRange(c) ==
    \/ to_numeric(c).t # "num"
    \/ to_numeric(c).h < 2 * 1
    \/ to_numeric(c).h > 2 * 5

\* C15: the range is checked by calculate_scores and not by load_csv: a
\* structurally valid file loads whatever the range of its Probability and
\* Impact values, and calculate_scores on a loaded table that holds a null
\* value or a value outside [1,5] fails with RiskMatrixValidationError and
\* returns no table.
C15_RangeCheckedWhenScoring ==
    /\ (eng.op \in {"load_csv", "load_then_calculate_scores"} /\ StructurallyValid(eng.file))
          => (IF eng.op = "load_csv" THEN eng.out.status ELSE eng.loaded.status) = "ok"
    /\ eng.op = "load_then_calculate_scores"
          => LET df == frame_table(eng.loaded.frame)
             IN  (\E i \in DOMAIN df.rows :
                     \/ NullOrOutOfRange(df.rows[i][PROBABILITY_COLUMN])
                     \/ NullOrOutOfRange(df.rows[i][IMPACT_COLUMN]))
                 => (eng.out.status = "RiskMatrixValidationError" /\ eng.out.df = <<>>)

\* C15 witness: a file with Probability 6 and Impact 5 was loaded and
\* calculate_scores then failed on the loaded table.
C15_Witness ==
    /\ eng.op = "load_then_calculate_scores"
    /\ StructurallyValid(eng.file)
    /\ eng.loaded.status = "ok"
    /\ frame_table(eng.loaded.frame).rows[1][PROBABILITY_COLUMN] = IntCell(6)
    /\ frame_table(eng.loaded.frame).rows[1][IMPACT_COLUMN] = IntCell(5)
    /\ eng.out.status = "RiskMatrixValidationError"

-----------------------------------------------------------------------------
(* Properties of sanitisation *)

FormulaCharacters == {"=", "+", "-", "@"}

Quoted(text) == <<"'">> \o text

\* C18: _sanitize_value puts a single quote before exactly the non-empty
\* strings whose first character is one of = + - @ and returns every other
\* string and every non-string value unchanged; applied twice it gives what
\* it gives applied once; _sanitize_text gives the same text on every string.
C18_SanitizeValue ==
    eng.op = "sanitize_value"
    => /\ IF eng.value.t = "str" /\ eng.value.s # <<>>
             /\ eng.value.s[1] \in FormulaCharacters
          THEN eng.out = StrCell(Quoted(eng.value.s))
          ELSE eng.out = eng.value
       /\ eng.again = eng.out
       /\ eng.value.t = "str"
            => (eng.text = eng.out.s /\ eng.text_again = eng.text)

\* C18 witness: "=a" became "'=a" and stayed "'=a" when sanitised again.
C18_Witness ==
    /\ eng.op = "sanitize_value"
    /\ eng.value = StrCell(<<"=", "a">>)
    /\ eng.out = StrCell(<<"'", "=", "a">>)
    /\ eng.again = StrCell(<<"'", "=", "a">>)
    /\ eng.text = <<"'", "=", "a">>

\* The cells a loaded table holds in the column the file names `name`.
LoadedCell(i, name) == eng.out.frame.df.rows[i][name]

\* A column of the file that is read as text: some field of it is neither
\* a missing value nor a number.
TextColumn(file, name) ==
    \E i \in DOMAIN FieldsUnder(file, name) :
        /\ FieldsUnder(file, name)[i] \notin NaTexts
        /\ ParseNum(FieldsUnder(file, name)[i]).t # "num"

\* C19 as stated: in every table load_csv returns, a cell of a text column
\* that was empty in the file holds the empty string.
C19_EmptyCellIsEmptyString ==
    (eng.op = "load_csv" /\ eng.out.status = "ok")
    => \A name \in Range(Header(eng.file)) :
          TextColumn(eng.file, name)
          => \A i \in DOMAIN FieldsUnder(eng.file, name) :
                FieldsUnder(eng.file, name)[i] = <<>>
                => LoadedCell(i, name) = StrCell(<<>>)

\* C19 amended: sanitisation leaves null cells as they are, so in every
\* table load_csv returns a cell that was empty in the file is null (NaN),
\* in text columns and in numeric ones, and never the empty string.
C19_EmptyCellStaysNull ==
    (eng.op = "load_csv" /\ eng.out.status = "ok")
    => \A name \in Range(Header(eng.file)) :
          \A i \in DOMAIN FieldsUnder(eng.file, name) :
             FieldsUnder(eng.file, name)[i] = <<>> => LoadedCell(i, name) = NaN

\* C19 witness: a file with an empty Threat among texts was loaded and the
\* cell is NaN.
C19_Witness ==
    /\ eng.op = "load_csv"
    /\ eng.out.status = "ok"
    /\ THREAT_COLUMN \in Range(Header(eng.file))
    /\ TextColumn(eng.file, THREAT_COLUMN)
    /\ \E i \in DOMAIN FieldsUnder(eng.file, THREAT_COLUMN) :
          /\ FieldsUnder(eng.file, THREAT_COLUMN)[i] = <<>>
          /\ LoadedCell(i, THREAT_COLUMN) = NaN


\* The text export_csv must write for a cell that holds the string `text`.
Guarded(text) ==
    IF text # <<>> /\ text[1] \in FormulaCharacters THEN Quoted(text) ELSE text

StartsWithFormulaCharacter(text) == text # <<>> /\ text[1] \in FormulaCharacters

\* C20: no textual cell of a table load_csv returns, and no textual cell of
\* a file export_csv has written (for a table that was never loaded or
\* sanitised), begins with = + - or @; a cell whose text began with one of
\* them holds that text behind a single quote.
C20_OutputsSanitized ==
    /\ (eng.op = "load_csv" /\ eng.out.status = "ok")
          => \A name \in Range(Header(eng.file)) :
                \A i \in DOMAIN FieldsUnder(eng.file, name) :
                   LET field == FieldsUnder(eng.file, name)[i]
                       cell == LoadedCell(i, name)
                   IN  /\ cell.t = "str" => ~StartsWithFormulaCharacter(cell.s)
                       /\ (TextColumn(eng.file, name) /\ field \notin NaTexts)
                             => cell = StrCell(Guarded(field))
    /\ \A n \in DOMAIN exports :
          LET e == exports[n]
              lines == e.after.file.data
          IN  (e.after.file.exists /\ e.after.file # e.before.file)
              => \A k \in 2..Len(lines) :
                    \A j \in DOMAIN e.df.columns :
                       LET cell == e.df.rows[k - 1][e.df.columns[j]]
                       IN  cell.t \in {"str", "string"}
                           => /\ lines[k][j] = Guarded(cell.s)
                              /\ ~StartsWithFormulaCharacter(lines[k][j])


-----------------------------------------------------------------------------
(* Column-name normalisation *)

\* Two names equal up to letter case.
SameName(a, b) == name_lower(a) = name_lower(b)

ProbabilityCandidates == <<"Probability", "Likelihood", "Probabilité", "Probabilite">>

ImpactCandidates == <<"Impact", "Severity", "ImpactBusiness", "Gravité", "Gravite">>

\* The positions of the headers that match a candidate name.
Matching(columns, name) == {j \in DOMAIN columns : SameName(columns[j], name)}

\* The first candidate, in order, that some header matches; 0 if none does.
FirstPresent(columns, candidates) ==
    LET present == {a \in DOMAIN candidates : Matching(columns, candidates[a]) # {}}
    IN  IF present = {} THEN 0 ELSE CHOOSE a \in present : \A b \in present : a <= b

\* The positions of the headers that match the first present candidate.
Chosen(columns, candidates) ==
    IF FirstPresent(columns, candidates) = 0 THEN {}
    ELSE Matching(columns, candidates[FirstPresent(columns, candidates)])

Last(positions) == CHOOSE j \in positions : \A k \in positions : k <= j

\* A header matching the first present candidate carries the canonical name
\* afterwards, and no header outside that candidate was renamed to it.
CandidateRenamed(columns, labels, candidates, canonical) ==
    LET chosen == Chosen(columns, candidates)
        changed == {j \in DOMAIN columns : labels[j] = canonical /\ columns[j] # canonical}
    IN  /\ chosen # {} => \E j \in chosen : labels[j] = canonical
        /\ changed \subseteq chosen
        /\ Cardinality(changed) <= 1

\* C21 as stated: matching is case-insensitive and the first candidate found
\* wins, for Probability in the order Probability, Likelihood, Probabilité,
\* Probabilite and for Impact in the order Impact, Severity, ImpactBusiness,
\* Gravité, Gravite; every header that is Asset or Threat up to letter case
\* carries the canonical name afterwards; all remaining headers are unchanged.
C21_FirstCandidateWins ==
    eng.op = "normalise_columns" =>
        LET columns == eng.columns
            labels == eng.out.labels
        IN  /\ CandidateRenamed(columns, labels, ProbabilityCandidates, "Probability")
            /\ CandidateRenamed(columns, labels, ImpactCandidates, "Impact")
            /\ \A j \in Matching(columns, "Asset") : labels[j] = "Asset"
            /\ \A j \in Matching(columns, "Threat") : labels[j] = "Threat"
            /\ \A j \in DOMAIN columns :
                  j \notin Chosen(columns, ProbabilityCandidates)
                           \cup Chosen(columns, ImpactCandidates)
                           \cup Matching(columns, "Asset")
                           \cup Matching(columns, "Threat")
                  => labels[j] = columns[j]

\* The positions _normalise_columns gives a canonical name: of the headers
\* matching the first present candidate, and of those that are Asset or
\* Threat up to letter case, the last one in the file's order.
CanonicalAt(columns, canonical, candidates) ==
    IF Chosen(columns, candidates) = {} THEN {}
    ELSE {Last(Chosen(columns, candidates))}

\* C21, amended: matching is case-insensitive and the first candidate found
\* wins, in the orders of the claim; of the headers matching that candidate,
\* and of the headers that are Asset or Threat up to letter case, the last one
\* in the file's order carries the canonical name afterwards, and every other
\* header is unchanged.
C21_LastCaseVariantRenamed ==
    eng.op = "normalise_columns" =>
        LET columns == eng.columns
            labels == eng.out.labels
            prob == CanonicalAt(columns, "Probability", ProbabilityCandidates)
            imp == CanonicalAt(columns, "Impact", ImpactCandidates)
            asset == CanonicalAt(columns, "Asset", <<"Asset">>)
            threat == CanonicalAt(columns, "Threat", <<"Threat">>)
        IN  /\ DOMAIN labels = DOMAIN columns
            /\ \A j \in DOMAIN columns :
                  labels[j] = IF j \in prob THEN "Probability"
                              ELSE IF j \in imp THEN "Impact"
                              ELSE IF j \in asset THEN "Asset"
                              ELSE IF j \in threat THEN "Threat"
                              ELSE columns[j]
            /\ eng.out.df = HeaderTable(columns)

\* Probabilite comes first in the file and Likelihood first in the order of
\* the candidates: Likelihood is renamed, Probabilite is not.
C21_Witness ==
    /\ eng.op = "normalise_columns"
    /\ eng.columns = <<"Probabilite", "LIKELIHOOD", "asset">>
    /\ eng.out.labels = <<"Probabilite", "Probability", "Asset">>


-----------------------------------------------------------------------------
(* The risk-level fallback of the classification *)

\* The text without its leading and trailing whitespace.
RECURSIVE WithoutOuterWhitespace(_)
WithoutOuterWhitespace(s) ==
    IF s = <<>> THEN s
    ELSE IF Head(s) \in {" ", "\t", "\n", "\r"} THEN WithoutOuterWhitespace(Tail(s))
    ELSE IF s[Len(s)] \in {" ", "\t", "\n", "\r"}
    THEN WithoutOuterWhitespace(SubSeq(s, 1, Len(s) - 1))
    ELSE s

\* The risk level of row i of the caller's table, trimmed and lower-cased;
\* empty when the table has no RiskLevel column or the cell holds no text.
GivenLevel(df, i) ==
    IF ~HasColumn(df, "RiskLevel") THEN <<>>
    ELSE IF df.rows[i]["RiskLevel"].t # "str" THEN <<>>
    ELSE lower(WithoutOuterWhitespace(df.rows[i]["RiskLevel"].s))

\* The rows of the caller's table whose entry is in the result: the last row
\* of each risk identifier.
KeptRows(df) ==
    {i \in DOMAIN df.rows :
        \A j \in DOMAIN df.rows :
            risk_id(row_asset(df, j), row_threat(df, j))
                = risk_id(row_asset(df, i), row_threat(df, i)) => j <= i}

\* C22: when no keyword rule matches a row, its domain is data_protection
\* exactly when its risk level, trimmed and lower-cased, is high or critical,
\* and general otherwise, also without a RiskLevel column or with an empty
\* level; when some keyword rule matches, the domain is that rule's whatever
\* the level is.
C22_LevelFallback ==
    (mapper.op = "map_risks_to_controls" /\ mapper.out.status = "ok"
        /\ mapper.risks.kind = "DataFrame")
    => LET df == mapper.risks.df
       IN  \A i \in KeptRows(df) :
              LET asset == row_asset(df, i)
                  threat == row_threat(df, i)
                  matching == MatchingRules(lower(asset \o <<" ">> \o threat))
                  domain == mapper.out.entries[risk_id(asset, threat)].domain
              IN  IF matching = {}
                  THEN domain = IF GivenLevel(df, i) \in {<<"h", "i", "g", "h">>,
                                                          <<"c", "r", "i", "t", "i", "c", "a", "l">>}
                                THEN "data_protection"
                                ELSE "general"
                  ELSE domain = RuleDomains[CHOOSE r \in matching : \A o \in matching : r <= o]

\* A row no keyword matches, with the level ' CRITICAL ', is data_protection.
C22_Witness ==
    /\ mapper.op = "map_risks_to_controls"
    /\ mapper.out.status = "ok"
    /\ mapper.risks.kind = "DataFrame"
    /\ Len(mapper.risks.df.rows) = 1
    /\ mapper.risks.df.rows[1]["Asset"] = StrCell(<<"a">>)
    /\ mapper.risks.df.rows[1]["Threat"] = StrCell(<<"c">>)
    /\ HasColumn(mapper.risks.df, "RiskLevel")
    /\ mapper.risks.df.rows[1]["RiskLevel"]
          = StrCell(<<" ", "C", "R", "I", "T", "I", "C", "A", "L", " ">>)
    /\ mapper.out.entries[<<"a", ":", ":", "c">>].domain = "data_protection"


-----------------------------------------------------------------------------
(* Rejection of the mapper's input *)

\* Neither a DataFrame nor a sequence of RiskScenario records.
UnsupportedShape(risks) ==
    \/ risks.kind \notin {"DataFrame", "Sequence"}
    \/ /\ risks.kind = "Sequence"
       /\ \E i \in DOMAIN risks.items : risks.items[i].cls # "RiskScenario"

\* An empty DataFrame or an empty sequence.
EmptyInput(risks) ==
    \/ risks.kind = "DataFrame" /\ (risks.df.rows = <<>> \/ risks.df.columns = <<>>)
    \/ risks.kind = "Sequence" /\ risks.items = <<>>

\* A table lacking an Asset or a Threat column.
LacksAssetOrThreat(risks) ==
    /\ risks.kind = "DataFrame"
    /\ {"Asset", "Threat"} \ Range(risks.df.columns) # {}

\* C23: map_risks_to_controls and generate_gap_analysis reject every input
\* that is neither a DataFrame nor a sequence of RiskScenario records, every
\* empty DataFrame or sequence and every table lacking an Asset or a Threat
\* column, with RiskInputValidationError and without any partial mapping.
C23_BadInputRejected ==
    (/\ mapper.op \in {"map_risks_to_controls", "generate_gap_analysis"}
     /\ \/ UnsupportedShape(mapper.risks)
        \/ EmptyInput(mapper.risks)
        \/ LacksAssetOrThreat(mapper.risks))
    => /\ mapper.out.status = "RiskInputValidationError"
       /\ mapper.out.entries = <<>>

\* generate_gap_analysis was given a table with rows and without an Asset
\* column, and rejected it.
C23_Witness ==
    /\ mapper.op = "generate_gap_analysis"
    /\ LacksAssetOrThreat(mapper.risks)
    /\ ~EmptyInput(mapper.risks)
    /\ "Threat" \in Range(mapper.risks.df.columns)
    /\ mapper.out.status = "RiskInputValidationError"


-----------------------------------------------------------------------------
(* The caller's table across a call *)

\* The record of a call on a table the caller holds as an object.
CallRecord == IF eng # EngIdle THEN eng ELSE mapper

CallMade ==
    CallRecord.op \in {"calculate_scores_call", "export_csv_call",
                       "map_risks_to_controls_call", "generate_gap_analysis_call"}

\* The arrays a DataFrame object holds its columns in.
ArraysOf(objs, ref) ==
    {objs.frames[ref].data[c] : c \in Range(objs.frames[ref].columns)}

\* The calls agree with the operations on tables as values.
CallsRefineOperations ==
    /\ eng.op = "calculate_scores_call" =>
          LET r == calculate_scores(DefaultThresholds, FrameValue(eng.before, eng.df))
          IN  /\ eng.status = r.status
              /\ eng.status = "ok" => FrameValue(eng.after, eng.ref) = r.df
    /\ mapper.op = "map_risks_to_controls_call" =>
          LET given == DataFrameInput(FrameValue(mapper.before, mapper.df))
              r == dataframe_from_input_call(mapper.before, mapper.df)
          IN  /\ r.status = dataframe_from_input(given).status
              /\ r.status = "ok" =>
                    FrameValue(r.objs, r.ref) = dataframe_from_input(given).df

\* C24: calculate_scores, export, map_risks_to_controls and
\* generate_gap_analysis leave the caller's table (cells, column names,
\* column set) exactly as it was before the call, whether the call succeeds
\* or fails, and a returned table is a new object that shares no column
\* array with the caller's.
C24_CallerTableUnchanged ==
    CallMade =>
        LET r == CallRecord
        IN  /\ FrameValue(r.after, r.df) = FrameValue(r.before, r.df)
            /\ r.after.frames[r.df] = r.before.frames[r.df]
            /\ \A a \in DOMAIN r.before.arrays : r.after.arrays[a] = r.before.arrays[a]
            /\ (r.op = "calculate_scores_call" /\ r.status = "ok") =>
                  /\ r.ref # r.df
                  /\ ArraysOf(r.after, r.ref) \cap ArraysOf(r.after, r.df) = {}

\* A successful calculate_scores whose result differs from the caller's
\* table, which has kept its text cells and has no Risk column.
C24_Witness ==
    /\ eng.op = "calculate_scores_call"
    /\ eng.status = "ok"
    /\ FrameValue(eng.after, eng.df).rows[1][PROBABILITY_COLUMN] = StrCell(<<"3">>)
    /\ FrameValue(eng.after, eng.ref).rows[1][PROBABILITY_COLUMN] = IntCell(3)
    /\ ~HasColumn(FrameValue(eng.after, eng.df), SCORE_COLUMN)
    /\ HasColumn(FrameValue(eng.after, eng.ref), SCORE_COLUMN)


-----------------------------------------------------------------------------
(* The round trip *)

\* The file is valid: load_csv returns a table and calculate_scores scores it.
ValidInputFile == eng.out.loaded.status = "ok" /\ eng.out.scored.status = "ok"

\* The source row's probability and impact, as load_csv read them.
SourceCell(i, name) == to_numeric(scoring_table(eng.out.loaded.frame).rows[i][name])

\* C25: for every valid input file, the file written by
\* export(calculate_scores(load(file))) reads back as a table with the same
\* number of rows that has Risk and RiskLevel columns, each row's Risk being
\* the product of the source row's probability and impact and RiskLevel the
\* level of that Risk; loading the exported file again and re-scoring it
\* yields the same Risk and RiskLevel values.
C25_RoundTrip ==
    (eng.op = "round_trip" /\ ValidInputFile) =>
        /\ eng.out.exported = "ok"
        /\ eng.out.back.status = "ok"
        /\ LET back == eng.out.back.df
           IN  /\ Len(back.rows) = Len(eng.file.data) - 1
               /\ HasColumn(back, SCORE_COLUMN)
               /\ HasColumn(back, LEVEL_COLUMN)
               /\ \A i \in DOMAIN back.rows :
                     /\ back.rows[i][SCORE_COLUMN].t = "num"
                     /\ 2 * back.rows[i][SCORE_COLUMN].h
                           = SourceCell(i, PROBABILITY_COLUMN).h * SourceCell(i, IMPACT_COLUMN).h
                     /\ back.rows[i][LEVEL_COLUMN]
                           = StrCell(LevelText[level_for_score(DefaultThresholds,
                                         astype_int(back.rows[i][SCORE_COLUMN]))])
        /\ eng.out.reloaded.status = "ok"
        /\ eng.out.rescored.status = "ok"
        /\ \A c \in {SCORE_COLUMN, LEVEL_COLUMN} :
              ColumnOf(eng.out.rescored.df, c) = ColumnOf(eng.out.scored.df, c)


-----------------------------------------------------------------------------
(* Column names after normalisation *)

\* The number of columns that carry the name.
Named(labels, name) == Cardinality({j \in DOMAIN labels : labels[j] = name})

\* C26: column-name normalisation never produces two columns with the same
\* name: pairwise distinct headers stay pairwise distinct, and after a
\* successful load exactly one column is named Asset, one Threat, one
\* Probability and one Impact, also when the file carries case variants.
C26_NoDuplicateColumns ==
    /\ (eng.op = "normalise_columns" /\ Distinct(eng.columns))
          => Distinct(eng.out.labels)
    /\ (eng.op = "load_csv" /\ eng.out.status = "ok")
          => \A name \in {ASSET_COLUMN, THREAT_COLUMN, PROBABILITY_COLUMN, IMPACT_COLUMN} :
                Named(eng.out.frame.labels, name) = 1


-----------------------------------------------------------------------------
(* Calls of export_csv that run side by side *)

\* The calls made with overwrite=False that wrote the file.
WroteWithoutOverwrite ==
    {k \in DOMAIN exports : ~exports[k].overwrite /\ exports[k].out = "ok"}

\* C27 as stated: with overwrite=False export never replaces the content of
\* a destination that exists at the moment of writing, also when calls on the
\* same, initially absent, destination are interleaved: at most one of them
\* writes the file and the others fail with the overwrite-refused error.
C27_NeverReplacesWhenInterleaved ==
    eng.op = "export_csv_steps" =>
        /\ \A k \in WroteWithoutOverwrite : ~exports[k].before.file.exists
        /\ (/\ ~eng.start.file.exists
            /\ \A k \in DOMAIN exports : ~exports[k].overwrite)
           => /\ Cardinality(WroteWithoutOverwrite) <= 1
              /\ \A k \in DOMAIN exports \ WroteWithoutOverwrite :
                    exports[k].out = "RiskAssessmentError"

\* No step of another call lies between the check and the write of call k.
RanAlone(k) == exports[k].checked = exports[k].before

\* C27, amended: with overwrite=False export raises the overwrite-refused
\* error when the destination exists at the moment of its existence test, and
\* a call that writes found the destination absent at that test; a call whose
\* test and write no other call comes between never replaces an existing
\* file.  Nothing more holds of interleaved calls.
C27_RefusesWhatItSawExisting ==
    eng.op = "export_csv_steps" =>
        \A k \in DOMAIN exports :
            ~exports[k].overwrite =>
                /\ exports[k].checked.file.exists =>
                      /\ exports[k].out = "RiskAssessmentError"
                      /\ exports[k].after = exports[k].before
                /\ exports[k].out = "ok" => ~exports[k].checked.file.exists
                /\ (exports[k].out = "ok" /\ RanAlone(k)) => ~exports[k].before.file.exists

\* Two calls with overwrite=False on a destination that was absent: both
\* passed the test before either wrote, both wrote, and the second write
\* replaced what the first had written.
C27_Witness ==
    /\ eng.op = "export_csv_steps"
    /\ Len(exports) = 2
    /\ \A k \in 1..2 : ~exports[k].overwrite /\ exports[k].out = "ok"
                       /\ ~exports[k].checked.file.exists
    /\ exports[2].before.file.exists
    /\ exports[2].before.file = exports[1].after.file
    /\ exports[2].after.file # exports[1].after.file


-----------------------------------------------------------------------------
(* C28, C29: the converter's levels and the standalone validator *)

\* The levels whose RISK_THRESHOLDS range holds the score.
LevelsInRiskThresholds(score) ==
    {l \in DOMAIN RISK_THRESHOLDS :
        RISK_THRESHOLDS[l][1] <= score /\ score <= RISK_THRESHOLDS[l][2]}

Products == {p * i : p \in 1..5, i \in 1..5}

EngineLevel(score) == level_for_score(DefaultThresholds, score)

\* C28: every component gives a score P*I (P, I in 1..5) the level the
\* engine's level_for_score gives it under the default thresholds: the colour
\* apply_risk_coloring picks for a Risk cell, the colour create_heatmap picks
\* for a cell of the matrix and the range of RISK_THRESHOLDS holding the
\* score; and each of low, medium, high and critical is given to some product.
C28_SameLevelEverywhere ==
    /\ eng.op = "apply_risk_coloring" =>
          \A n \in DOMAIN eng.out :
              LET risk == astype_int(eng.df.rows[n]["Risk"])
              IN  risk \in Products => eng.out[n] = EngineLevel(risk)
    /\ eng.op = "create_heatmap" =>
          /\ \A pi \in DOMAIN eng.out : eng.out[pi].color = EngineLevel(pi[1] * pi[2])
          /\ \A l \in {"low", "medium", "high", "critical"} :
                \E pi \in DOMAIN eng.out : eng.out[pi].color = l
    /\ eng.op \in {"apply_risk_coloring", "create_heatmap"} =>
          \A score \in Products : LevelsInRiskThresholds(score) = {EngineLevel(score)}

\* C29: validate_risk_scores fails when a Probability or an Impact is not a
\* number or lies outside 1..5; when the only fault is a Risk that differs
\* from Probability * Impact it warns and returns; in every case the table
\* it was given is the same afterwards, stored Risk included.  The
\* converter's load_csv, when it returns a table read from a file, has
\* replaced every Risk by Probability * Impact.
C29_ValidatorKeepsLoadOverwrites ==
    /\ eng.op = "validate_risk_scores" =>
          LET t == FrameValue(eng.before, eng.df)
              bad(c) == c.t # "num" \/ c.h < 2 \/ c.h > 10
              scored == {"Probability", "Impact"} \subseteq Range(t.columns)
              faulty == \E n \in DOMAIN t.rows :
                            bad(t.rows[n]["Probability"]) \/ bad(t.rows[n]["Impact"])
          IN  /\ eng.after = eng.before
              /\ FrameValue(eng.after, eng.df) = t
              /\ (scored /\ faulty) => (eng.status = "ValueError" /\ ~eng.warned)
              /\ (scored /\ ~faulty /\ "Risk" \in Range(t.columns)) =>
                    /\ eng.status = "ok"
                    /\ eng.warned <=>
                          \E n \in DOMAIN t.rows :
                              \/ t.rows[n]["Risk"].t # "num"
                              \/ 2 * t.rows[n]["Risk"].h
                                    # t.rows[n]["Probability"].h * t.rows[n]["Impact"].h
    /\ (eng.op = "converter_load_csv" /\ eng.file.exists /\ eng.out.status = "ok") =>
          LET back == FrameValue(eng.out.objs, eng.out.ref)
          IN  /\ back.columns = eng.out.read.columns
              /\ \A n \in DOMAIN back.rows :
                    /\ \A c \in Range(back.columns) \ {"Risk"} :
                          back.rows[n][c] = eng.out.read.rows[n][c]
                    /\ back.rows[n]["Risk"]
                          = IntCell(astype_int(back.rows[n]["Probability"])
                                      * astype_int(back.rows[n]["Impact"]))
              /\ eng.out.warned <=>
                    \E n \in DOMAIN back.rows :
                        back.rows[n]["Risk"] # eng.out.read.rows[n]["Risk"]

C29_Witness ==
    /\ eng.op = "validate_risk_scores"
    /\ eng.status = "ok"
    /\ eng.warned
    /\ Len(FrameValue(eng.after, eng.df).rows) = 2
    /\ FrameValue(eng.after, eng.df).rows[2]["Risk"] = IntCell(99)
    /\ FrameValue(eng.after, eng.df).rows[2]["Probability"] = IntCell(3)
    /\ FrameValue(eng.after, eng.df).rows[2]["Impact"] = IntCell(4)

C29_LoadWitness ==
    /\ eng.op = "converter_load_csv"
    /\ eng.file.exists
    /\ eng.out.status = "ok"
    /\ eng.out.warned
    /\ eng.out.read.rows[1]["Risk"] = IntCell(99)
    /\ FrameValue(eng.out.objs, eng.out.ref).rows[1]["Risk"] = IntCell(12)


-----------------------------------------------------------------------------
(* C30: validate_file_path *)

\* The whitelisted directories, as paths below the project root.
AllowedDirectories ==
    {<<"docs", "compliance">>, <<"docs", "architecture">>, <<"docs", "cces">>,
     <<"05-Business-Processes">>, <<"02-Matrices">>, <<"samples">>}

\* The path lies inside the directory: the directory is one of its parents.
Inside(dir, path) == Len(dir) < Len(path) /\ SubSeq(path, 1, Len(dir)) = dir

InWhitelistedDirectory(path) ==
    \E d \in AllowedDirectories : Inside(project_root \o d, path)

\* C30: validate_file_path returns a path only when the resolved file lies
\* under the project root and inside one of the directories of ALLOWED_DIRS;
\* for every other path it raises an error and returns no path.
C30_OnlyWhitelistedPaths ==
    eng.op = "validate_file_path" =>
        /\ eng.out.status = "ok" =>
              /\ Inside(project_root, eng.out.path)
              /\ InWhitelistedDirectory(eng.out.path)
              /\ eng.out.path \in Files
        /\ eng.out.status # "ok" =>
              /\ eng.out.status \in {"ValueError", "FileNotFoundError"}
              /\ eng.out.path = NoPath

\* What does hold: a returned path is an existing file under the project
\* root, and the text of its path below the root starts with the text of an
\* entry of ALLOWED_DIRS.
C30_ReturnedPathUnderRoot ==
    eng.op = "validate_file_path" =>
        /\ eng.out.status = "ok" =>
              /\ Inside(project_root, eng.out.path)
              /\ eng.out.path \in Files
              /\ \E d \in AllowedDirectories :
                    LET rel == SubSeq(eng.out.path, 2, Len(eng.out.path))
                    IN  startswith(PathStr(rel), JoinParts(d))
        /\ eng.out.status # "ok" => eng.out.path = NoPath

C30_DotDotRejected ==
    /\ eng.op = "validate_file_path"
    /\ eng.file_path = [absolute |-> FALSE, parts |-> <<"samples", "..", "a.md">>]
    /\ eng.out.status = "ValueError"
====
